---- MODULE Spec2Model ----
(***************************************************************************)
(* Verification model of the Rollkit execution-node customisation          *)
(* (rollkit/lumen): custom consensus, payload attributes and the payload   *)
(* builder.                                                                *)
(***************************************************************************)
EXTENDS Integers, Sequences, FiniteSets, TLC

(***************************************************************************)
(* Bounds of the model.                                                    *)
(***************************************************************************)
\* largest header timestamp drawn for the consensus check
MaxTimestamp == 2
\* largest block number drawn for a parent header
MaxNumber == 1
\* longest transaction list given to a build
MaxTxs == 2
\* longest list of byte strings the wire attributes carry
MaxBlobs == 2
\* most blocks the host imports in one run
MaxImports == 2
\* most transactions in the pool
MaxPool == 3
\* largest encoded length of a pool transaction, in bytes
MaxTxBytes == 2
\* most concurrent callers of forward_raw
MaxCallers == 3
\* largest configured queue_size of the forwarder
MaxQueueSize == 2
\* largest burst of the forwarder's rate limiter
MaxRate == 1
\* bytes of a transaction hash (32 in the source, scaled down)
HashBytes == 1
\* largest shutdown timeout the supervisor is run with, in seconds
MaxShutdownTimeout == 2
\* largest max_fallback_checks the supervisor is run with
MaxFallbackChecks == 2
MaxRpcCalls == 2

VARIABLES
    header,     \* consensus: the child header under validation
    parent,     \* consensus: the parent header
    cres,       \* consensus: result of validate_header_against_parent, or NoResult
    headers,    \* host header provider: hash -> header of every known block
    latest,     \* host state provider: the latest (canonical head) world state
    wire,       \* engine: the wire payload attributes of the current job
    job,        \* engine: result of try_new for the current job
    first,      \* the first build_payload call of the run, kept for comparison
    last,       \* the last builder operation: name, input, result
    best,       \* engine: the best_payload the last try_build was given
    cancel,     \* engine: when the last try_build's cancel token was cancelled
    execution_data, \* validator: the execution payload under validation
    vres,       \* validator: result of ensure_well_formed_payload
    pool,       \* txpool: the pool's transactions in best (priority) order
    pending,    \* txpool: the order pending_transactions() lists them in
    max_bytes,  \* txpool: the configured byte cap
    selected,   \* txpool: the last getTxs call and the list it returned
    queue_size, \* forwarder: the configured number of permits
    queue,      \* forwarder: permits available in the semaphore
    limiter,    \* forwarder: tokens available in the rate limiter
    fpc,        \* forwarder: where each forward_raw caller is
    fresp,      \* forwarder: the HTTP response each caller is reading
    fres,       \* forwarder: the result of each caller's last call
    errors_total, \* forwarder: tx_forwarder_errors_total, by class
    closed,     \* forwarder: whether the queue semaphore is closed
    ftrace,     \* forwarder: the steps each caller's call has taken
    env_vars,   \* supervisor: the environment variables of the process
    config,     \* supervisor: the NodeConfig loaded by from_env
    spc,        \* supervisor: where main is
    sres,       \* supervisor: the result returned to main
    exit_status, \* supervisor: the exit status of the process
    node_exit_future, \* supervisor: pending, or the node's own result
    handlers,   \* supervisor: which signal handlers could be installed
    sig,        \* supervisor: where handle_shutdown_signals is
    check_count, \* supervisor: periodic status checks made and logged
    phases,     \* supervisor: the last shutdown phase logged
    warned,     \* supervisor: variables a warning was logged about
    elapsed,    \* supervisor: seconds since the shutdown timeout started
    first_event, \* supervisor: which of node exit and signal came first
    late_signal, \* supervisor: a signal arrived during the shutdown wait
    rpc_calls,  \* eth api: the calls clients made of the wrapper, in order
    inner_calls, \* eth api: the calls made of the inner API, in order
    remote_requests, \* eth api: the requests sent to the remote endpoint
    local_txs   \* eth api: transactions the inner API put in the local pool

vars ==
    <<header, parent, cres, headers, latest, wire, job, first, last, best,
      cancel,
      execution_data, vres, pool, pending, max_bytes, selected,
      queue_size, queue, limiter, fpc, fresp, fres, errors_total, closed,
      ftrace,
      env_vars, config, spc, sres, exit_status, node_exit_future, handlers,
      sig,
      check_count, phases, warned, elapsed, first_event, late_signal,
      rpc_calls, inner_calls, remote_requests, local_txs>>

consensusVars == <<header, parent, cres>>
chainVars == <<headers, latest>>
engineVars == <<wire, job, first, last, best, cancel>>
validatorVars == <<execution_data, vres>>

\* The variables of the consensus, the chain and the payload builder, and
\* those of the node's other services.
coreVars == <<consensusVars, chainVars, engineVars>>
poolVars == <<pool, pending, max_bytes, selected>>
forwarderVars ==
    <<queue_size, queue, limiter, fpc, fresp, fres, errors_total, closed,
      ftrace>>
supervisorVars ==
    <<env_vars, config, spc, sres, exit_status, node_exit_future, handlers,
      sig,
      check_count, phases, warned, elapsed, first_event, late_signal>>
apiVars == <<rpc_calls, inner_calls, remote_requests, local_txs>>
serviceVars ==
    <<validatorVars, poolVars, forwarderVars, supervisorVars, apiVars>>

\* Option<T>: the empty sequence is None, a one-element sequence is Some.
None == << >>
Some(v) == <<v>>
IsSome(o) == Len(o) = 1
Unwrap(o) == o[1]

(***************************************************************************)
(* B. Custom consensus (crates/rollkit/src/consensus.rs)                   *)
(***************************************************************************)

ParentHashes == {"h1", "h2"}

\* The verdicts of the host's remaining parent checks (gas-limit bound,
\* EIP-1559 base fee, blob-gas fields) on a child header.
HostRestVerdicts ==
    {"Ok", "GasLimitInvalidIncrease", "BaseFeeDiff", "ExcessBlobGasDiff"}

\* Header facts the parent check reads.  `rest' stands for the fields the
\* host's gas-limit, base-fee and blob-gas checks read: it is the verdict
\* those checks give for this header against its parent.
Headers ==
    [hash : ParentHashes, parent_hash : ParentHashes,
     number : 0 .. (MaxNumber + 2), timestamp : 0 .. MaxTimestamp,
     rest : HostRestVerdicts]

CheckOk ==
    [ok |-> TRUE, err |-> "Ok", got |-> "-", expected |-> "-",
     parent_block_number |-> -1, block_number |-> -1,
     parent_timestamp |-> -1, timestamp |-> -1]

ParentHashMismatch(got, expected) ==
    [CheckOk EXCEPT !.ok = FALSE, !.err = "ParentHashMismatch",
                    !.got = got, !.expected = expected]

ParentBlockNumberMismatch(parent_block_number, block_number) ==
    [CheckOk EXCEPT !.ok = FALSE, !.err = "ParentBlockNumberMismatch",
                    !.parent_block_number = parent_block_number,
                    !.block_number = block_number]

TimestampIsInPast(parent_timestamp, timestamp) ==
    [CheckOk EXCEPT !.ok = FALSE, !.err = "TimestampIsInPast",
                    !.parent_timestamp = parent_timestamp,
                    !.timestamp = timestamp]

HostRestError(verdict) ==
    [CheckOk EXCEPT !.ok = FALSE, !.err = verdict]

\* The host's checks other than parent hash, number and timestamp.
HostOtherChecks(h, p) ==
    IF h.rest = "Ok" THEN CheckOk ELSE HostRestError(h.rest)

\* EthBeaconConsensus::validate_header_against_parent, the inner consensus:
\* number and hash continuity, strictly increasing timestamp, then the rest.
InnerValidateHeaderAgainstParent(h, p) ==
    IF p.number + 1 # h.number
      THEN ParentBlockNumberMismatch(p.number, h.number)
    ELSE IF p.hash # h.parent_hash
      THEN ParentHashMismatch(h.parent_hash, p.hash)
    ELSE IF h.timestamp <= p.timestamp
      THEN TimestampIsInPast(p.timestamp, h.timestamp)
    ELSE HostOtherChecks(h, p)

\* Mutant: the timestamp rule kept strict, as in the host.
StrictValidateHeaderAgainstParent(h, p) ==
    IF h.parent_hash # p.hash
      THEN ParentHashMismatch(h.parent_hash, p.hash)
    ELSE IF h.number # p.number + 1
      THEN ParentBlockNumberMismatch(p.number, h.number)
    ELSE IF h.timestamp <= p.timestamp
      THEN TimestampIsInPast(p.timestamp, h.timestamp)
    ELSE InnerValidateHeaderAgainstParent(h, p)

\* Mutant: the timestamp comparison dropped, so that a past timestamp is
\* accepted like an equal one.
LooseValidateHeaderAgainstParent(h, p) ==
    IF h.parent_hash # p.hash
      THEN ParentHashMismatch(h.parent_hash, p.hash)
    ELSE IF h.number # p.number + 1
      THEN ParentBlockNumberMismatch(p.number, h.number)
    ELSE IF h.timestamp <= p.timestamp
      THEN CheckOk
    ELSE InnerValidateHeaderAgainstParent(h, p)

\* RollkitConsensus::validate_header_against_parent
ValidateHeaderAgainstParent(h, p) ==
    IF h.parent_hash # p.hash
      THEN ParentHashMismatch(h.parent_hash, p.hash)
    ELSE IF h.number # p.number + 1
      THEN ParentBlockNumberMismatch(p.number, h.number)
    ELSE IF h.timestamp < p.timestamp
      THEN TimestampIsInPast(p.timestamp, h.timestamp)
    ELSE IF h.timestamp = p.timestamp
      THEN CheckOk
    ELSE InnerValidateHeaderAgainstParent(h, p)

NoResult == [CheckOk EXCEPT !.ok = FALSE, !.err = "not-run"]

(***************************************************************************)
(* Host chain: the header provider and the latest state.                   *)
(***************************************************************************)

\* The hash of the block at height n of the model's chain.
BlockHash(n) == <<"block", n>>

\* A hash no header is known for.
UnknownHash == <<"block", -1>>

\* World state: the nonce of the one funded account.
GenesisState == [nonce |-> 0]

\* A header of the provider: its number, timestamp and the root of the state
\* after its block.
GenesisHeaders ==
    (BlockHash(0) :> [number |-> 0, timestamp |-> 0,
                      state_root |-> GenesisState.nonce])

ChainHead(hdrs) ==
    CHOOSE h \in DOMAIN hdrs : \A g \in DOMAIN hdrs : hdrs[g].number <= hdrs[h].number

(***************************************************************************)
(* D. Payload builder (crates/node/src/builder.rs)                         *)
(***************************************************************************)

\* A decoded signed transaction: the sender's nonce it carries, and whether
\* its sender can be recovered from the signature.
Txs ==
    {[nonce |-> 0, sig_ok |-> TRUE], [nonce |-> 1, sig_ok |-> TRUE],
     [nonce |-> 0, sig_ok |-> FALSE]}

RECURSIVE SeqsUpTo(_, _)
SeqsUpTo(S, n) ==
    IF n = 0 THEN {<< >>}
    ELSE LET shorter == SeqsUpTo(S, n - 1)
         IN  shorter \cup {Append(q, x) : q \in shorter, x \in S}

\* RollkitPayloadAttributes::new
RollkitPayloadAttributes(transactions, gas_limit, timestamp, prev_randao, suggested_fee_recipient, parent_hash, block_number) ==
    [transactions |-> transactions, gas_limit |-> gas_limit,
     timestamp |-> timestamp, prev_randao |-> prev_randao,
     suggested_fee_recipient |-> suggested_fee_recipient,
     parent_hash |-> parent_hash, block_number |-> block_number]

\* RollkitPayloadAttributes::validate
Validate(attributes) ==
    IF IsSome(attributes.gas_limit) /\ Unwrap(attributes.gas_limit) = 0
      THEN "InvalidGasLimit"
      ELSE "Ok"

\* Steps of the host a build may fail at for reasons of the host's own.
Faults == {"none", "latest", "header", "builder", "pre_execution", "finish"}

NoEnv ==
    [timestamp |-> -1, suggested_fee_recipient |-> -1, prev_randao |-> -1,
     gas_limit |-> -1, parent_beacon_block_root |-> None, withdrawals |-> None]

\* NextBlockEnvAttributes as build_payload fills it
NextBlockEnvAttributes(attributes, gas_limit) ==
    [timestamp |-> attributes.timestamp,
     suggested_fee_recipient |-> attributes.suggested_fee_recipient,
     prev_randao |-> attributes.prev_randao,
     gas_limit |-> gas_limit,
     parent_beacon_block_root |-> Some(0),
     withdrawals |-> None]

NoBlock ==
    [number |-> -1, parent_hash |-> UnknownHash, timestamp |-> -1,
     beneficiary |-> -1, mix_hash |-> -1, gas_limit |-> -1, gas_used |-> -1,
     state_root |-> -1, receipts_root |-> << >>, transactions |-> << >>,
     parent_beacon_block_root |-> None, withdrawals |-> None]

\* The block builder of the host, opened on a state for a parent and an
\* environment: the state it executes on and what it has accumulated.
BuilderForNextBlock(state, sealed_parent, env) ==
    [nonce |-> state.nonce, gas_used |-> 0, transactions |-> << >>,
     receipts |-> << >>, parent |-> sealed_parent, env |-> env]

\* BlockBuilder::execute_transaction of the host: a transaction is rejected
\* when it does not fit in the block's remaining gas or its nonce is not the
\* sender's; otherwise it is committed to the builder's state.
CanExecute(b, tx) ==
    /\ b.gas_used + 1 <= b.env.gas_limit
    /\ tx.nonce = b.nonce

ExecuteTransaction(b, tx) ==
    [b EXCEPT !.nonce = @ + 1, !.gas_used = @ + 1,
              !.transactions = Append(@, tx),
              !.receipts = Append(@, b.gas_used + 1)]

\* Mutant: the block sealed with the state root of the state before the
\* transactions were executed.
FinishWithStaleStateRoot(b) ==
    [number |-> b.parent.number + 1, parent_hash |-> b.parent.hash,
     timestamp |-> b.env.timestamp,
     beneficiary |-> b.env.suggested_fee_recipient,
     mix_hash |-> b.env.prev_randao, gas_limit |-> b.env.gas_limit,
     gas_used |-> b.gas_used, state_root |-> b.nonce - Len(b.transactions),
     receipts_root |-> b.receipts, transactions |-> b.transactions,
     parent_beacon_block_root |-> b.env.parent_beacon_block_root,
     withdrawals |-> b.env.withdrawals]

\* BlockBuilder::finish of the host: the sealed block, its state root
\* computed from the post-execution state.
Finish(b) ==
    [number |-> b.parent.number + 1, parent_hash |-> b.parent.hash,
     timestamp |-> b.env.timestamp,
     beneficiary |-> b.env.suggested_fee_recipient,
     mix_hash |-> b.env.prev_randao, gas_limit |-> b.env.gas_limit,
     gas_used |-> b.gas_used, state_root |-> b.nonce,
     receipts_root |-> b.receipts, transactions |-> b.transactions,
     parent_beacon_block_root |-> b.env.parent_beacon_block_root,
     withdrawals |-> b.env.withdrawals]

BuildErr(err, env, trace) ==
    [ok |-> FALSE, err |-> err, block |-> NoBlock, env |-> env, trace |-> trace]

BuildOk(block, env, trace) ==
    [ok |-> TRUE, err |-> "Ok", block |-> block, env |-> env, trace |-> trace]

\* One entry of a build's trace: a call the build made on a collaborator.
Step(name, index, ok) == [step |-> name, index |-> index, ok |-> ok]

\* The body of build_payload's loop for the transaction at index i: the
\* sender is recovered (a failure returns from build_payload), then the
\* transaction is executed (a failure is logged and the loop goes on).
TxStep(acc, tx, i) ==
    IF acc.err # "Ok" THEN acc
    ELSE IF ~tx.sig_ok
      THEN [acc EXCEPT !.err = "FailedToRecover",
                       !.trace = Append(@, Step("recover", i, FALSE))]
    ELSE IF CanExecute(acc.b, tx)
      THEN [acc EXCEPT !.b = ExecuteTransaction(@, tx),
                       !.trace = Append(@, Step("execute", i, TRUE))]
    ELSE [acc EXCEPT !.trace = Append(@, Step("execute", i, FALSE))]

\* build_payload's loop over attributes.transactions, from index i on.
RECURSIVE ExecuteTransactions(_, _, _)
ExecuteTransactions(acc, txs, i) ==
    IF i > Len(txs) THEN acc
    ELSE ExecuteTransactions(TxStep(acc, txs[i], i), txs, i + 1)

\* RollkitPayloadBuilder::build_payload on the header provider hdrs and the
\* latest state, with the host failing at step fault (or at none).
BuildPayload(attributes, hdrs, state, fault) ==
    LET t1 == <<Step("latest", 0, fault # "latest")>>
        known == attributes.parent_hash \in DOMAIN hdrs
        t2 == Append(t1, Step("header", 0, fault # "header" /\ known))
    IN
    IF Validate(attributes) # "Ok"
      THEN BuildErr("InvalidGasLimit", NoEnv, << >>)
    ELSE IF fault = "latest"
      THEN BuildErr("ProviderError", NoEnv, t1)
    ELSE IF fault = "header"
      THEN BuildErr("ProviderError", NoEnv, t2)
    ELSE IF ~known
      THEN BuildErr("ParentHeaderNotFound", NoEnv, t2)
    ELSE IF ~IsSome(attributes.gas_limit)
      THEN BuildErr("GasLimitRequired", NoEnv, t2)
    ELSE
      LET sealed_parent ==
              [number |-> hdrs[attributes.parent_hash].number,
               timestamp |-> hdrs[attributes.parent_hash].timestamp,
               hash |-> attributes.parent_hash]
          env == NextBlockEnvAttributes(attributes, Unwrap(attributes.gas_limit))
          t3 == Append(t2, Step("builder_for_next_block", 0, fault # "builder"))
          t4 == Append(t3, Step("apply_pre_execution_changes", 0,
                                fault # "pre_execution"))
          run == ExecuteTransactions(
                     [b |-> BuilderForNextBlock(state, sealed_parent, env),
                      err |-> "Ok", trace |-> t4],
                     attributes.transactions, 1)
          t5 == Append(run.trace, Step("finish", 0, fault # "finish"))
      IN
      IF fault = "builder" THEN BuildErr("BuilderError", env, t3)
      ELSE IF fault = "pre_execution" THEN BuildErr("PreExecutionError", env, t4)
      ELSE IF run.err # "Ok" THEN BuildErr(run.err, env, run.trace)
      ELSE IF fault = "finish" THEN BuildErr("FinishError", env, t5)
      ELSE BuildOk(Finish(run.b), env, t5)

(***************************************************************************)
(* A. Payload attributes (bin/lumen/src/attributes.rs)                     *)
(***************************************************************************)

\* Encodable2718::encode_2718 of a signed transaction: the type byte of the
\* envelope, then the fields.
Encode2718(tx) == <<2, tx.nonce, IF tx.sig_ok THEN 1 ELSE 0>>

\* TransactionSigned::network_decode: fails on truncated input, on an
\* unknown type byte and on malformed fields.
NetworkDecode(bytes) ==
    IF /\ Len(bytes) = 3
       /\ bytes[1] = 2
       /\ bytes[2] \in {t.nonce : t \in Txs}
       /\ bytes[3] \in {0, 1}
      THEN [ok |-> TRUE, tx |-> [nonce |-> bytes[2], sig_ok |-> bytes[3] = 1]]
      ELSE [ok |-> FALSE, tx |-> [nonce |-> 0, sig_ok |-> FALSE]]

NoBuilderAttributes ==
    [ethereum_attributes |->
         [id |-> << >>, parent |-> UnknownHash, timestamp |-> -1,
          suggested_fee_recipient |-> -1, prev_randao |-> -1,
          withdrawals |-> << >>, parent_beacon_block_root |-> None],
     transactions |-> << >>, gas_limit |-> None]

\* EthPayloadBuilderAttributes::new of the host: the standard fields copied,
\* an absent withdrawals list as the empty list, and the payload id derived
\* from the parent and the standard fields.
EthPayloadBuilderAttributes(parent_hash, inner) ==
    [id |-> <<parent_hash, inner.timestamp, inner.prev_randao,
              inner.suggested_fee_recipient, inner.withdrawals,
              inner.parent_beacon_block_root>>,
     parent |-> parent_hash, timestamp |-> inner.timestamp,
     suggested_fee_recipient |-> inner.suggested_fee_recipient,
     prev_randao |-> inner.prev_randao,
     withdrawals |-> IF IsSome(inner.withdrawals)
                       THEN Unwrap(inner.withdrawals) ELSE << >>,
     parent_beacon_block_root |-> inner.parent_beacon_block_root]

\* The standard Ethereum part of the wire attributes (the flattened `inner').
Inner(attributes) ==
    [timestamp |-> attributes.timestamp, prev_randao |-> attributes.prev_randao,
     suggested_fee_recipient |-> attributes.suggested_fee_recipient,
     withdrawals |-> attributes.withdrawals,
     parent_beacon_block_root |-> attributes.parent_beacon_block_root]

\* Mutant: elements that fail to decode are dropped from the list.
RECURSIVE DecodeSkippingInvalid(_)
DecodeSkippingInvalid(blobs) ==
    IF blobs = << >> THEN [ok |-> TRUE, txs |-> << >>]
    ELSE LET d == NetworkDecode(blobs[1])
             rest == DecodeSkippingInvalid(Tail(blobs))
         IN  IF d.ok THEN [ok |-> TRUE, txs |-> <<d.tx>> \o rest.txs] ELSE rest

\* try_new's map/collect over the byte strings: every element decoded in
\* order, the first failure returned in place of the list.
RECURSIVE DecodeTransactions(_)
DecodeTransactions(blobs) ==
    IF blobs = << >> THEN [ok |-> TRUE, txs |-> << >>]
    ELSE LET d == NetworkDecode(blobs[1])
             rest == DecodeTransactions(Tail(blobs))
         IN  IF ~d.ok \/ ~rest.ok THEN [ok |-> FALSE, txs |-> << >>]
             ELSE [ok |-> TRUE, txs |-> <<d.tx>> \o rest.txs]

\* Mutant: the payload id covers the transactions and the gas limit too.
TryNewIdOverTransactions(parent_hash, attributes) ==
    LET ethereum_attributes ==
            EthPayloadBuilderAttributes(parent_hash, Inner(attributes))
        decoded ==
            DecodeTransactions(IF IsSome(attributes.transactions)
                                 THEN Unwrap(attributes.transactions) ELSE << >>)
    IN  IF ~decoded.ok
          THEN [ok |-> FALSE, err |-> "InvalidTransactionData",
                attrs |-> NoBuilderAttributes]
          ELSE [ok |-> TRUE, err |-> "Ok",
                attrs |-> [ethereum_attributes |->
                               [ethereum_attributes EXCEPT
                                   !.id = @ \o <<decoded.txs, attributes.gas_limit>>],
                           transactions |-> decoded.txs,
                           gas_limit |-> attributes.gas_limit]]

\* RollkitEnginePayloadBuilderAttributes::try_new
TryNew(parent_hash, attributes) ==
    LET ethereum_attributes ==
            EthPayloadBuilderAttributes(parent_hash, Inner(attributes))
        decoded ==
            DecodeTransactions(IF IsSome(attributes.transactions)
                                 THEN Unwrap(attributes.transactions) ELSE << >>)
    IN  IF ~decoded.ok
          THEN [ok |-> FALSE, err |-> "InvalidTransactionData",
                attrs |-> NoBuilderAttributes]
          ELSE [ok |-> TRUE, err |-> "Ok",
                attrs |-> [ethereum_attributes |-> ethereum_attributes,
                           transactions |-> decoded.txs,
                           gas_limit |-> attributes.gas_limit]]

(***************************************************************************)
(* Engine payload builder (bin/ev-reth/src/builder.rs)                     *)
(***************************************************************************)

\* Mutant: the empty payload built from the attributes' transactions.
EmptyAttributesKeepingTransactions(attributes, parent_header) ==
    RollkitPayloadAttributes(
        attributes.transactions,
        attributes.gas_limit,
        attributes.ethereum_attributes.timestamp,
        attributes.ethereum_attributes.prev_randao,
        attributes.ethereum_attributes.suggested_fee_recipient,
        attributes.ethereum_attributes.parent,
        parent_header.number + 1)

\* Mutant: the fee recipient and prev-randao swapped in the conversion.
TryBuildAttributesSwapped(attributes, parent_header) ==
    RollkitPayloadAttributes(
        attributes.transactions,
        attributes.gas_limit,
        attributes.ethereum_attributes.timestamp,
        attributes.ethereum_attributes.suggested_fee_recipient,
        attributes.ethereum_attributes.prev_randao,
        attributes.ethereum_attributes.parent,
        parent_header.number + 1)

\* try_build's conversion of the builder attributes to the attributes of
\* build_payload.
TryBuildAttributes(attributes, parent_header) ==
    RollkitPayloadAttributes(
        attributes.transactions,
        attributes.gas_limit,
        attributes.ethereum_attributes.timestamp,
        attributes.ethereum_attributes.prev_randao,
        attributes.ethereum_attributes.suggested_fee_recipient,
        attributes.ethereum_attributes.parent,
        parent_header.number + 1)

\* build_empty_payload's attributes: the same with no transactions.
EmptyPayloadAttributes(attributes, parent_header) ==
    RollkitPayloadAttributes(
        << >>,
        attributes.gas_limit,
        attributes.ethereum_attributes.timestamp,
        attributes.ethereum_attributes.prev_randao,
        attributes.ethereum_attributes.suggested_fee_recipient,
        attributes.ethereum_attributes.parent,
        parent_header.number + 1)

NoPayload == [id |-> << >>, block |-> NoBlock, fees |-> -1]

\* EthBuiltPayload::new(id, block, fees, None)
EthBuiltPayload(id, block, fees) == [id |-> id, block |-> block, fees |-> fees]

\* The record of one call on a builder: the operation, the attributes
\* build_payload was given, the host fault drawn, build_payload's result,
\* and for the engine builder the outcome and the built payload.
Call(op, attrs, fault, res, outcome, payload) ==
    [op |-> op, attrs |-> attrs, fault |-> fault, res |-> res,
     outcome |-> outcome, payload |-> payload]

NoAttributes ==
    RollkitPayloadAttributes(<< >>, None, -1, -1, -1, UnknownHash, -1)

NoBuild == BuildErr("not-run", NoEnv, << >>)

NoCall == Call("none", NoAttributes, "none", NoBuild, "-", NoPayload)

\* Mutant: a payload with the fees of the best one replaces it.
TryBuildReplacingOnTie(attributes, parent_header, best_payload, hdrs, state, fault) ==
    LET rollkit_attrs == TryBuildAttributes(attributes, parent_header)
        res == BuildPayload(rollkit_attrs, hdrs, state, fault)
        built_payload ==
            EthBuiltPayload(attributes.ethereum_attributes.id, res.block,
                            res.block.gas_used)
    IN  IF ~res.ok
          THEN Call("try_build", rollkit_attrs, fault, res, "Err", NoPayload)
        ELSE IF IsSome(best_payload)
                /\ built_payload.fees < Unwrap(best_payload).fees
          THEN Call("try_build", rollkit_attrs, fault, res, "Aborted",
                    [NoPayload EXCEPT !.fees = built_payload.fees])
        ELSE Call("try_build", rollkit_attrs, fault, res, "Better", built_payload)

\* RollkitEnginePayloadBuilder::try_build for the job's attributes, against
\* best_payload (None, or the payload an earlier call returned as Better).
TryBuild(attributes, parent_header, best_payload, hdrs, state, fault) ==
    LET rollkit_attrs == TryBuildAttributes(attributes, parent_header)
        res == BuildPayload(rollkit_attrs, hdrs, state, fault)
        built_payload ==
            EthBuiltPayload(attributes.ethereum_attributes.id, res.block,
                            res.block.gas_used)
    IN  IF ~res.ok
          THEN Call("try_build", rollkit_attrs, fault, res, "Err", NoPayload)
        ELSE IF IsSome(best_payload)
                /\ built_payload.fees <= Unwrap(best_payload).fees
          THEN Call("try_build", rollkit_attrs, fault, res, "Aborted",
                    [NoPayload EXCEPT !.fees = built_payload.fees])
        ELSE Call("try_build", rollkit_attrs, fault, res, "Better", built_payload)

\* RollkitEnginePayloadBuilder::build_empty_payload
BuildEmptyPayload(attributes, parent_header, hdrs, state, fault) ==
    LET rollkit_attrs == EmptyPayloadAttributes(attributes, parent_header)
        res == BuildPayload(rollkit_attrs, hdrs, state, fault)
    IN  IF ~res.ok
          THEN Call("build_empty_payload", rollkit_attrs, fault, res, "Err",
                    NoPayload)
          ELSE Call("build_empty_payload", rollkit_attrs, fault, res, "Payload",
                    EthBuiltPayload(attributes.ethereum_attributes.id, res.block,
                                    res.block.gas_used))

(***************************************************************************)
(* C. Engine validator (bin/ev-reth/src/validator.rs)                      *)
(***************************************************************************)

\* Verdicts of the host validator's fork-specific field checks on a block.
HostFieldVerdicts == {"Ok", "PostCancunBlockWithoutBlobGasUsed"}

NoRecoveredBlock == [hash |-> -1, transactions |-> << >>, senders |-> << >>]

ValidatorErr(kind, err) ==
    [ok |-> FALSE, kind |-> kind, err |-> err, block |-> NoRecoveredBlock]

ValidatorOk(block) == [ok |-> TRUE, kind |-> "Ok", err |-> "Ok", block |-> block]

\* RollkitEngineValidator::validate_payload_attributes_against_header: the
\* host's timestamp comparison is skipped and every pair accepted.
ValidatePayloadAttributesAgainstHeader(attr, hdr) == "Ok"

\* Block::seal_slow: the hash computed from the block's content.
SealSlow(block) == Len(block.transactions)

\* ExecutionPayload::try_into_block_with_sidecar(..).seal_slow(): the
\* payload's bytes decoded into a block, or a decode error.
TryIntoSealedBlock(p) ==
    IF ~p.decodes
      THEN [ok |-> FALSE, err |-> "Decode", hash |-> -1, transactions |-> << >>]
      ELSE [ok |-> TRUE, err |-> "Ok",
            hash |-> SealSlow([transactions |-> p.transactions]),
            transactions |-> p.transactions]

\* SealedBlock::try_recover: the sender of every transaction recovered from
\* its signature, or an error if one cannot be.
TryRecover(sealed_block) ==
    IF \A i \in DOMAIN sealed_block.transactions :
           sealed_block.transactions[i].sig_ok
      THEN ValidatorOk([hash |-> sealed_block.hash,
                        transactions |-> sealed_block.transactions,
                        senders |-> [i \in DOMAIN sealed_block.transactions |->
                                        "signer"]])
      ELSE ValidatorErr("Other", "RecoveryError")

\* EthereumExecutionPayloadValidator::ensure_well_formed_payload of the
\* host: decode and seal, compare the advertised hash with the sealed one,
\* then the fork-specific field checks.
InnerEnsureWellFormedPayload(p) ==
    LET sealed_block == TryIntoSealedBlock(p)
    IN  IF ~sealed_block.ok THEN [ok |-> FALSE, err |-> sealed_block.err,
                                  block |-> sealed_block]
        ELSE IF p.block_hash # sealed_block.hash
          THEN [ok |-> FALSE, err |-> "BlockHash", block |-> sealed_block]
        ELSE IF p.fields # "Ok"
          THEN [ok |-> FALSE, err |-> p.fields, block |-> sealed_block]
        ELSE [ok |-> TRUE, err |-> "Ok", block |-> sealed_block]

\* Mutant: every error of the host validator is bypassed.
EnsureWellFormedPayloadBypassingAll(p) ==
    LET inner == InnerEnsureWellFormedPayload(p)
        sealed_block == TryIntoSealedBlock(p)
    IN  IF inner.ok THEN TryRecover(inner.block)
        ELSE IF ~sealed_block.ok THEN ValidatorErr("Eth", sealed_block.err)
        ELSE TryRecover(sealed_block)

\* RollkitEngineValidator::ensure_well_formed_payload
EnsureWellFormedPayload(p) ==
    LET inner == InnerEnsureWellFormedPayload(p)
    IN  IF inner.ok THEN TryRecover(inner.block)
        ELSE IF inner.err = "BlockHash"
          THEN LET sealed_block == TryIntoSealedBlock(p)
               IN  IF ~sealed_block.ok THEN ValidatorErr("Eth", sealed_block.err)
                   ELSE TryRecover(sealed_block)
        ELSE ValidatorErr("Eth", inner.err)

\* Execution payloads of the Engine API: whether the bytes decode into a
\* block, the transactions they decode to, the advertised block hash, and
\* the verdict of the host's field checks.
ExecutionPayloads ==
    [decodes : BOOLEAN, transactions : SeqsUpTo(Txs, MaxTxs),
     block_hash : 0 .. (MaxTxs + 1), fields : HostFieldVerdicts]

NoExecutionPayload ==
    [decodes |-> FALSE, transactions |-> << >>, block_hash |-> -1,
     fields |-> "Ok"]

NoValidation == ValidatorErr("not-run", "not-run")

(***************************************************************************)
(* E. Txpool RPC extension (crates/evolve/src/rpc/txpool.rs and            *)
(* crates/rollkit/src/rpc/txpool.rs)                                       *)
(***************************************************************************)

\* A pool transaction: its identity and the length of its encoding.
PoolTxs == [id : 1 .. MaxPool, size : 1 .. MaxTxBytes]

\* The encoding of a pool transaction: `size' bytes that identify it.
EncodedBytes(tx) == [i \in 1 .. tx.size |-> tx.id]

\* encoded_length of the pool transaction
EncodedLength(tx) == Len(EncodedBytes(tx))

\* format!("0x{}", hex_encode(&rlp_bytes)): the bytes as a hex string.
HexString(bytes) == [prefix |-> "0x", digits |-> bytes]

\* The bytes a returned element stands for.
BlobBytes(blob) == blob.digits

\* evolve: the returned element is the encoded bytes themselves.
RawBytes(bytes) == [prefix |-> "", digits |-> bytes]

\* The loop of get_txs over an iterator of pool transactions, from index i:
\* stop at the first transaction that would push the total above the cap.
RECURSIVE SelectUpTo(_, _, _, _, _)
SelectUpTo(txs, i, total, cap, acc) ==
    IF i > Len(txs) THEN acc
    ELSE LET sz == EncodedLength(txs[i])
         IN  IF total + sz > cap THEN acc
             ELSE SelectUpTo(txs, i + 1, total + sz, cap,
                             Append(acc, EncodedBytes(txs[i])))

\* evolve RollkitTxpoolApiImpl::get_txs: over pool.best_transactions()
GetTxs(best_transactions, cap) ==
    LET bz == SelectUpTo(best_transactions, 1, 0, cap, << >>)
    IN  [i \in DOMAIN bz |-> RawBytes(bz[i])]

\* rollkit RollkitTxpoolApiImpl::get_txs: over pool.pending_transactions(),
\* the elements returned as hex strings
GetTxsPending(listed, cap) ==
    LET bz == SelectUpTo(listed, 1, 0, cap, << >>)
    IN  [i \in DOMAIN bz |-> HexString(bz[i])]

\* WeightedTransaction { tx, weight }
WeightedTransaction(bytes) ==
    [prefix |-> "", digits |-> bytes, weight |-> Len(bytes)]

\* select_transactions: over pool.pending_transactions(), each element
\* returned with its size as weight
SelectTransactions(listed, cap) ==
    LET bz == SelectUpTo(listed, 1, 0, cap, << >>)
    IN  [i \in DOMAIN bz |-> WeightedTransaction(bz[i])]

\* The orders pending_transactions() may list a pool of n transactions
\* in: sequences of distinct indexes.
PendingOrders(n) ==
    {p \in [1 .. n -> 1 .. n] : \A i, j \in 1 .. n : p[i] = p[j] => i = j}

\* Pools in best order: distinct transactions, at most MaxPool of them.
Pools ==
    {q \in SeqsUpTo(PoolTxs, MaxPool) :
        \A i \in DOMAIN q : q[i].id = i}

NoSelection == [impl |-> "none", txs |-> << >>]

(***************************************************************************)
(* F. Transaction forwarder (crates/node/src/forwarder.rs)                 *)
(***************************************************************************)

\* Characters of the strings a response carries: two hex digits, the `x'
\* of the prefix, and a character that is no hex digit.
Chars == {"0", "f", "x", "g"}

HexValue(c) == IF c = "f" THEN 15 ELSE 0

IsHexDigit(c) == c \in {"0", "f"}

\* str::trim_start_matches("0x"): every leading repetition of "0x" removed.
RECURSIVE TrimStartMatches0x(_)
TrimStartMatches0x(str) ==
    IF Len(str) >= 2 /\ str[1] = "0" /\ str[2] = "x"
      THEN TrimStartMatches0x(SubSeq(str, 3, Len(str)))
      ELSE str

\* hex::decode_to_slice(hash, &mut [0u8; N]): the string must be exactly
\* 2N hex digits.
DecodeToSlice(str) ==
    IF Len(str) = 2 * HashBytes /\ \A i \in DOMAIN str : IsHexDigit(str[i])
      THEN [ok |-> TRUE,
            bytes |-> [i \in 1 .. HashBytes |->
                          16 * HexValue(str[2 * i - 1]) + HexValue(str[2 * i])]]
      ELSE [ok |-> FALSE, bytes |-> << >>]

\* B256::ZERO
ZeroHash == [i \in 1 .. HashBytes |-> 0]

NoBody == [json |-> FALSE, result |-> [kind |-> "absent", str |-> << >>],
           error |-> FALSE]

ForwardOk(hash) ==
    [ok |-> TRUE, err |-> "Ok", hash |-> hash, status |-> 0, body |-> NoBody]

ForwardError(err, status, body) ==
    [ok |-> FALSE, err |-> err, hash |-> << >>, status |-> status,
     body |-> body]

NoForward == ForwardError("not-run", 0, NoBody)

\* metrics::counter!("tx_forwarder_errors_total", "class" => class): the
\* counter of the class is registered and its handle returned; the handle
\* is dropped without an increment.
CounterHandle(counters, class) ==
    [registered |-> counters.registered \cup {class}, value |-> counters.value]

\* StatusCode::is_success
IsSuccess(status) == status >= 200 /\ status <= 299

\* The label of a non-2xx status: resp.status().as_u16().to_string()
StatusClass(status) == ToString(status)

\* Mutant: a result that is not a 32-byte hex string is not an error of its
\* own: the body is classified by its other members.
ClassifyBodyIgnoringBadHash(body) ==
    LET decoded == DecodeToSlice(TrimStartMatches0x(body.result.str))
    IN  IF ~body.json THEN ForwardError("InvalidJson", 0, NoBody)
        ELSE IF body.result.kind = "string" /\ decoded.ok
          THEN ForwardOk(decoded.bytes)
        ELSE IF body.error THEN ForwardError("UpstreamError", 0, body)
        ELSE ForwardError("UnexpectedBody", 0, body)

\* Step 5 of forward_raw: the result for the body of a 2xx response.
ClassifyBody(body) ==
    IF ~body.json THEN ForwardError("InvalidJson", 0, NoBody)
    ELSE IF body.result.kind = "string"
      THEN LET decoded == DecodeToSlice(TrimStartMatches0x(body.result.str))
           IN  IF decoded.ok THEN ForwardOk(decoded.bytes)
               ELSE ForwardError("InvalidHash", 0, NoBody)
    ELSE IF body.error THEN ForwardError("UpstreamError", 0, body)
    ELSE ForwardError("UnexpectedBody", 0, body)

\* The counters after step 5 on the body of a 2xx response.
BodyCounters(counters, body) ==
    IF ~body.json \/ body.result.kind = "string" THEN counters
    ELSE IF body.error THEN CounterHandle(counters, "upstream")
    ELSE CounterHandle(counters, "invalid_body")

(***************************************************************************)
(* Inputs                                                                  *)
(***************************************************************************)

ChildHeaders == {h \in Headers : h.hash = "h2"}

ParentHeaders ==
    {h \in Headers : h.number <= MaxNumber /\ h.rest = "Ok" /\ h.parent_hash = "h1"}

IdleHeader ==
    [hash |-> "h1", parent_hash |-> "h1", number |-> 0, timestamp |-> 0,
     rest |-> "Ok"]

TxLists == SeqsUpTo(Txs, MaxTxs)

GasLimits == {None, Some(0), Some(1), Some(MaxTxs)}

\* The attributes of a direct build_payload call on a parent hash.
BuildInputs(hdrs) ==
    {RollkitPayloadAttributes(txs, g, 1, 1, 1, ph,
                              IF ph \in DOMAIN hdrs THEN hdrs[ph].number + 1 ELSE 0) :
        txs \in TxLists, g \in GasLimits, ph \in DOMAIN hdrs \cup {UnknownHash}}

\* Byte strings of the wire: encodings of transactions, the empty string and
\* a string with an unknown type byte.
Blobs == {Encode2718(t) : t \in Txs} \cup {<< >>, <<9, 0, 1>>}

\* RollkitEnginePayloadAttributes as they arrive on the Engine API.
WireAttributes ==
    [timestamp : {0, 1}, prev_randao : {0, 1}, suggested_fee_recipient : {0, 1},
     withdrawals : {None, Some(<<7>>)},
     parent_beacon_block_root : {None, Some(1)},
     transactions : {None} \cup {Some(l) : l \in SeqsUpTo(Blobs, MaxBlobs)},
     gas_limit : GasLimits]

NoWire ==
    [timestamp |-> -1, prev_randao |-> -1, suggested_fee_recipient |-> -1,
     withdrawals |-> None, parent_beacon_block_root |-> None,
     transactions |-> None, gas_limit |-> None]

\* The best_payload the host passes to try_build: none, the payload the
\* job's last Better outcome returned, or a payload kept from an earlier
\* build of the job with any fees.
BestPayloads(kept) ==
    {None}
    \cup {Some(kept.payload) : x \in {y \in {kept} : y.op = "try_build"}}
    \cup {Some([NoPayload EXCEPT !.fees = k]) : k \in 0 .. MaxTxs}

\* The strings a JSON member may hold, up to the length of a prefixed hash.
Strings == SeqsUpTo(Chars, 2 * HashBytes + 2)

\* Response bodies: whether the body is JSON at all, its `result' member
\* (absent, null, or a string) and whether it has an `error' member.
Bodies ==
    {NoBody}
    \cup [json : {TRUE},
          result : {[kind |-> "absent", str |-> << >>],
                    [kind |-> "null", str |-> << >>]}
                   \cup [kind : {"string"}, str : Strings],
          error : BOOLEAN]

\* What a POST to the sequencer comes back with: a network error, or a
\* response with a status and a body.
Responses ==
    {[sent |-> FALSE, status |-> 0, body |-> NoBody]}
    \cup [sent : {TRUE}, status : {404, 500}, body : {NoBody}]
    \cup [sent : {TRUE}, status : {200}, body : Bodies]

\* The string "0x" followed by 2 * HashBytes zeros.
ZeroHashString == <<"0", "x">> \o [i \in 1 .. 2 * HashBytes |-> "0"]

\* The responses of a sequencer under load: a network error, an internal
\* server error, and the all-zero hash.
SaturationResponses ==
    {[sent |-> FALSE, status |-> 0, body |-> NoBody],
     [sent |-> TRUE, status |-> 500, body |-> NoBody],
     [sent |-> TRUE, status |-> 200,
      body |-> [json |-> TRUE,
                result |-> [kind |-> "string", str |-> ZeroHashString],
                error |-> FALSE]]}

NoResponse == [sent |-> FALSE, status |-> -1, body |-> NoBody]

ErrorClasses == {StatusClass(404), StatusClass(500), "upstream", "invalid_body"}

NoErrors == [registered |-> {}, value |-> [c \in ErrorClasses |-> 0]]

NoJob == [ok |-> FALSE, err |-> "none", attrs |-> NoBuilderAttributes]

(***************************************************************************)
(* Actions                                                                 *)
(***************************************************************************)

\* The consensus validates the drawn header against the drawn parent.
ValidateHeader ==
    /\ cres = NoResult
    /\ cres' = ValidateHeaderAgainstParent(header, parent)
    /\ UNCHANGED <<header, parent, chainVars, engineVars, serviceVars>>

\* The host imports a block on the head of the chain: a new header is known
\* and the latest state moves (d: whether the block spends the account's
\* nonce).
ImportBlock(d) ==
    /\ Cardinality(DOMAIN headers) <= MaxImports
    /\ LET head == headers[ChainHead(headers)]
       IN  headers' = headers @@
               (BlockHash(head.number + 1) :>
                    [number |-> head.number + 1, timestamp |-> head.timestamp + 1,
                     state_root |-> latest.nonce + d])
    /\ latest' = [latest EXCEPT !.nonce = @ + d]
    /\ UNCHANGED <<consensusVars, engineVars, serviceVars>>

\* A caller invokes build_payload directly.
BuildPayloadCall(a, fault) ==
    /\ first = NoCall
    /\ LET c == Call("build_payload", a, fault,
                     BuildPayload(a, headers, latest, fault), "-", NoPayload)
       IN  first' = c /\ last' = c
    /\ UNCHANGED <<consensusVars, chainVars, wire, job, best, cancel,
                   serviceVars>>

\* The caller invokes build_payload once more with the attributes of its
\* first, successful call.
BuildPayloadAgain ==
    /\ first.op = "build_payload"
    /\ first.res.ok
    /\ last.op # "build_payload_again"
    /\ last' = Call("build_payload_again", first.attrs, "none",
                    BuildPayload(first.attrs, headers, latest, "none"),
                    "-", NoPayload)
    /\ UNCHANGED <<consensusVars, chainVars, wire, job, first, best, cancel,
                   serviceVars>>

\* The engine accepts payload attributes for a known parent: try_new.  One
\* job is followed per run.
NewPayloadJob(parent_hash, w) ==
    /\ wire = NoWire
    /\ parent_hash \in DOMAIN headers
    /\ wire' = w
    /\ job' = TryNew(parent_hash, w)
    /\ first' = NoCall
    /\ last' = [NoCall EXCEPT !.op = "try_new"]
    /\ best' = None
    /\ cancel' = None
    /\ UNCHANGED <<consensusVars, chainVars, serviceVars>>

\* The payload job calls try_build with the job's attributes, the parent
\* header the host resolved, the best payload so far (best_payload) and a
\* cancel token that the host cancels once `cancelled' transactions of the
\* build have been executed (None: never).  try_build binds the token to
\* `_': nothing of the build reads it.
TryBuildCall(best_payload, fault, cancelled) ==
    /\ job.ok
    /\ LET parent_header == headers[job.attrs.ethereum_attributes.parent]
           c == TryBuild(job.attrs, parent_header, best_payload,
                         headers, latest, fault)
       IN  /\ last' = c
           /\ first' = IF c.outcome = "Better" THEN c ELSE first
    /\ best' = best_payload
    /\ cancel' = cancelled
    /\ UNCHANGED <<consensusVars, chainVars, wire, job, serviceVars>>

\* The payload job calls build_empty_payload with the job's attributes.
BuildEmptyPayloadCall(fault) ==
    /\ job.ok
    /\ LET parent_header == headers[job.attrs.ethereum_attributes.parent]
       IN  last' = BuildEmptyPayload(job.attrs, parent_header,
                                     headers, latest, fault)
    /\ UNCHANGED <<consensusVars, chainVars, wire, job, first, best, cancel,
                   serviceVars>>

\* The engine hands a new payload to ensure_well_formed_payload.
ValidatePayload ==
    /\ vres = NoValidation
    /\ vres' = EnsureWellFormedPayload(execution_data)
    /\ UNCHANGED <<coreVars, apiVars, execution_data, poolVars, forwarderVars,
                   supervisorVars>>

\* A client calls txpoolExt_getTxs on the evolve implementation.
GetTxsCall ==
    /\ selected = NoSelection
    /\ selected' = [impl |-> "evolve", txs |-> GetTxs(pool, max_bytes)]
    /\ UNCHANGED <<coreVars, apiVars, validatorVars, pool, pending, max_bytes,
                   forwarderVars, supervisorVars>>

\* A client calls txpoolExt_getTxs on the rollkit implementation.
GetTxsPendingCall ==
    /\ selected = NoSelection
    /\ selected' = [impl |-> "rollkit",
                    txs |-> GetTxsPending([i \in DOMAIN pending |->
                                              pool[pending[i]]], max_bytes)]
    /\ UNCHANGED <<coreVars, apiVars, validatorVars, pool, pending, max_bytes,
                   forwarderVars, supervisorVars>>

\* A caller selects transactions with select_transactions.
SelectTransactionsCall ==
    /\ selected = NoSelection
    /\ selected' = [impl |-> "select",
                    txs |-> SelectTransactions([i \in DOMAIN pending |->
                                                   pool[pending[i]]], max_bytes)]
    /\ UNCHANGED <<coreVars, apiVars, validatorVars, pool, pending, max_bytes,
                   forwarderVars, supervisorVars>>

\* The callers that hold a permit of the semaphore.
InFlight == {c \in DOMAIN fpc : fpc[c] \in {"until_ready", "send", "json"}}

\* A caller enters forward_raw and waits for a permit.
ForwardRaw(c) ==
    /\ fpc[c] = "idle"
    /\ fpc' = [fpc EXCEPT ![c] = "acquire"]
    /\ UNCHANGED <<coreVars, apiVars, validatorVars, poolVars, supervisorVars, queue_size, queue,
                   limiter, fresp, fres, errors_total, closed, ftrace>>

\* The step caller c's call takes is appended to its trace.
Traced(c, step) == [ftrace EXCEPT ![c] = Append(@, step)]

\* Mutant: the call goes on without waiting for a permit.
AcquireWithoutWaiting(c) ==
    /\ fpc[c] = "acquire"
    /\ queue' = queue - 1
    /\ fpc' = [fpc EXCEPT ![c] = "until_ready"]
    /\ ftrace' = Traced(c, "permit")
    /\ UNCHANGED <<coreVars, apiVars, validatorVars, poolVars, supervisorVars, queue_size, limiter,
                   fresp, fres, errors_total, closed>>

\* Step 1: queue.acquire_owned() completes with a permit when one is
\* available, and with an error, mapped to ForwardError::Shutdown and
\* returned, when the semaphore is closed.
AcquireOwned(c) ==
    /\ fpc[c] = "acquire"
    /\ IF closed
         THEN /\ fres' = [fres EXCEPT ![c] = ForwardError("Shutdown", 0, NoBody)]
              /\ fpc' = [fpc EXCEPT ![c] = "done"]
              /\ UNCHANGED <<queue, ftrace>>
       ELSE /\ queue > 0
            /\ queue' = queue - 1
            /\ fpc' = [fpc EXCEPT ![c] = "until_ready"]
            /\ ftrace' = Traced(c, "permit")
            /\ UNCHANGED fres
    /\ UNCHANGED <<coreVars, apiVars, validatorVars, poolVars, supervisorVars, queue_size, limiter,
                   fresp, errors_total, closed>>

\* Semaphore::close on the queue: the permits stay as they are and every
\* acquire_owned, waiting or later, fails.
CloseQueue ==
    /\ ~closed
    /\ closed' = TRUE
    /\ UNCHANGED <<coreVars, apiVars, validatorVars, poolVars, supervisorVars, queue_size, queue,
                   limiter, fpc, fresp, fres, errors_total, ftrace>>

\* Mutant: the POST goes out without waiting for a token.
SendBeforeReady(c) ==
    /\ fpc[c] = "until_ready"
    /\ fpc' = [fpc EXCEPT ![c] = "send"]
    /\ UNCHANGED <<coreVars, apiVars, validatorVars, poolVars, supervisorVars, queue_size, queue,
                   limiter, fresp, fres, errors_total, closed, ftrace>>

\* Step 2: limiter.until_ready() completes when a token is available.
UntilReady(c) ==
    /\ fpc[c] = "until_ready"
    /\ limiter > 0
    /\ limiter' = limiter - 1
    /\ fpc' = [fpc EXCEPT ![c] = "send"]
    /\ ftrace' = Traced(c, "token")
    /\ UNCHANGED <<coreVars, apiVars, validatorVars, poolVars, supervisorVars, queue_size, queue,
                   fresp, fres, errors_total, closed>>

\* Time passes: the rate limiter gains a token.
Replenish ==
    /\ limiter < MaxRate
    /\ limiter' = limiter + 1
    /\ UNCHANGED <<coreVars, apiVars, validatorVars, poolVars, supervisorVars, queue_size, queue,
                   fpc, fresp, fres, errors_total, closed, ftrace>>

\* Steps 3 and 4: the POST is sent and completes with resp.  A network
\* error and a non-2xx status return (the permit is dropped); a 2xx
\* response goes on to read the body.
Send(c, resp) ==
    /\ fpc[c] = "send"
    /\ IF ~resp.sent
         THEN /\ fres' = [fres EXCEPT ![c] = ForwardError("Network", 0, NoBody)]
              /\ fpc' = [fpc EXCEPT ![c] = "done"]
              /\ queue' = queue + 1
              /\ ftrace' = [ftrace EXCEPT ![c] = @ \o <<"post", "release">>]
              /\ UNCHANGED <<fresp, errors_total>>
       ELSE IF ~IsSuccess(resp.status)
         THEN /\ errors_total' =
                     CounterHandle(errors_total, StatusClass(resp.status))
              /\ fres' = [fres EXCEPT ![c] =
                              ForwardError("HttpStatus", resp.status, NoBody)]
              /\ fpc' = [fpc EXCEPT ![c] = "done"]
              /\ queue' = queue + 1
              /\ ftrace' = [ftrace EXCEPT ![c] = @ \o <<"post", "release">>]
              /\ UNCHANGED fresp
       ELSE /\ fresp' = [fresp EXCEPT ![c] = resp]
            /\ fpc' = [fpc EXCEPT ![c] = "json"]
            /\ ftrace' = Traced(c, "post")
            /\ UNCHANGED <<queue, fres, errors_total>>
    /\ UNCHANGED <<coreVars, apiVars, validatorVars, poolVars, supervisorVars, queue_size, limiter,
                   closed>>

\* Mutant: the body is read and the call returns with its permit kept.
ReadJsonKeepingPermit(c) ==
    /\ fpc[c] = "json"
    /\ fres' = [fres EXCEPT ![c] = ClassifyBody(fresp[c].body)]
    /\ errors_total' = BodyCounters(errors_total, fresp[c].body)
    /\ fpc' = [fpc EXCEPT ![c] = "done"]
    /\ UNCHANGED <<coreVars, apiVars, validatorVars, poolVars, supervisorVars, queue_size, limiter,
                   fresp, closed, queue, ftrace>>

\* Step 5: the body has been read; the call returns and its permit is
\* dropped.
ReadJson(c) ==
    /\ fpc[c] = "json"
    /\ fres' = [fres EXCEPT ![c] = ClassifyBody(fresp[c].body)]
    /\ errors_total' = BodyCounters(errors_total, fresp[c].body)
    /\ fpc' = [fpc EXCEPT ![c] = "done"]
    /\ queue' = queue + 1
    /\ ftrace' = Traced(c, "release")
    /\ UNCHANGED <<coreVars, apiVars, validatorVars, poolVars, supervisorVars, queue_size, limiter,
                   fresp, closed>>

\* The caller drops the future of forward_raw at one of its await points:
\* a permit it holds is dropped with it.
DropForward(c) ==
    /\ fpc[c] \in {"acquire", "until_ready", "send", "json"}
    /\ queue' = IF c \in InFlight THEN queue + 1 ELSE queue
    /\ ftrace' = IF c \in InFlight THEN Traced(c, "release") ELSE ftrace
    /\ fpc' = [fpc EXCEPT ![c] = "done"]
    /\ fres' = [fres EXCEPT ![c] = ForwardError("dropped", 0, NoBody)]
    /\ UNCHANGED <<coreVars, apiVars, validatorVars, poolVars, supervisorVars, queue_size, limiter,
                   fresp, errors_total, closed>>

(***************************************************************************)
(* Process supervisor (bin/ev-reth/src/main.rs)                            *)
(***************************************************************************)

\* The constants of NodeConfig, in seconds
MIN_SHUTDOWN_TIMEOUT_SECS == 1
DEFAULT_SHUTDOWN_TIMEOUT_SECS == 15
MAX_SHUTDOWN_TIMEOUT_SECS == 300
MIN_STATUS_CHECK_INTERVAL_SECS == 1
DEFAULT_STATUS_CHECK_INTERVAL_SECS == 3600
MAX_STATUS_CHECK_INTERVAL_SECS == 21600
DEFAULT_MAX_FALLBACK_CHECKS == 24

\* A text is the sequence of its characters.
DigitChars == <<"0", "1", "2", "3", "4", "5", "6", "7", "8", "9">>

IsDigit(ch) == \E i \in 1 .. 10 : DigitChars[i] = ch

DigitValue(ch) == (CHOOSE i \in 1 .. 10 : DigitChars[i] = ch) - 1

RECURSIVE DigitsValue(_, _)
DigitsValue(digits, acc) ==
    IF digits = << >> THEN acc
    ELSE DigitsValue(Tail(digits), 10 * acc + DigitValue(Head(digits)))

\* str::parse::<u64>: an optional "+" and then one or more decimal digits.
\* (The texts drawn are far too short to overflow 64 bits.)
ParseU64(text) ==
    LET digits == IF text # << >> /\ Head(text) = "+" THEN Tail(text) ELSE text
    IN  IF digits = << >> \/ \E i \in 1 .. Len(digits) : ~IsDigit(digits[i])
          THEN [ok |-> FALSE, value |-> 0]
        ELSE [ok |-> TRUE, value |-> DigitsValue(digits, 0)]

UppercaseChars == <<"A", "E", "F", "L", "R", "S", "T", "U">>
LowercaseChars == <<"a", "e", "f", "l", "r", "s", "t", "u">>

\* str::to_lowercase, on the letters the texts are made of
ToLowercase(text) ==
    [i \in 1 .. Len(text) |->
        IF \E j \in 1 .. 8 : UppercaseChars[j] = text[i]
          THEN LowercaseChars[CHOOSE j \in 1 .. 8 : UppercaseChars[j] = text[i]]
        ELSE text[i]]

TextTrue == <<"t", "r", "u", "e">>
TextFalse == <<"f", "a", "l", "s", "e">>
TextFull == <<"f", "u", "l", "l">>

\* The decimal text of a one-digit number.
U64Text(n) == <<DigitChars[n + 1]>>

\* std::env::var(name): None is Err(NotPresent).
EnvVar(e, name) == e[name]

EnvOk == [ok |-> TRUE, var |-> "none"]
EnvErr(name) == [ok |-> FALSE, var |-> name]

\* The parse and the two bound checks validate_env_vars makes of a number.
InRange(text, min, max) ==
    LET parsed == ParseU64(text)
    IN  parsed.ok /\ parsed.value >= min /\ parsed.value <= max

\* validate_env_vars: the first variable found invalid is the error.
ValidateEnvVars(e) ==
    IF /\ EnvVar(e, "EV_RETH_SHUTDOWN_TIMEOUT") # None
       /\ ~InRange(EnvVar(e, "EV_RETH_SHUTDOWN_TIMEOUT")[1],
                   MIN_SHUTDOWN_TIMEOUT_SECS, MAX_SHUTDOWN_TIMEOUT_SECS)
      THEN EnvErr("EV_RETH_SHUTDOWN_TIMEOUT")
    ELSE IF /\ EnvVar(e, "EV_RETH_STATUS_CHECK_INTERVAL") # None
            /\ ~InRange(EnvVar(e, "EV_RETH_STATUS_CHECK_INTERVAL")[1],
                        MIN_STATUS_CHECK_INTERVAL_SECS,
                        MAX_STATUS_CHECK_INTERVAL_SECS)
      THEN EnvErr("EV_RETH_STATUS_CHECK_INTERVAL")
    ELSE IF /\ EnvVar(e, "EV_RETH_ENABLE_FALLBACK_STATUS_CHECKS") # None
            /\ ToLowercase(EnvVar(e, "EV_RETH_ENABLE_FALLBACK_STATUS_CHECKS")[1])
                   \notin {TextTrue, TextFalse}
      THEN EnvErr("EV_RETH_ENABLE_FALLBACK_STATUS_CHECKS")
    ELSE IF /\ EnvVar(e, "EV_RETH_MAX_FALLBACK_CHECKS") # None
            /\ ~ParseU64(EnvVar(e, "EV_RETH_MAX_FALLBACK_CHECKS")[1]).ok
      THEN EnvErr("EV_RETH_MAX_FALLBACK_CHECKS")
    ELSE IF /\ EnvVar(e, "RUST_BACKTRACE") # None
            /\ ToLowercase(EnvVar(e, "RUST_BACKTRACE")[1])
                   \notin {<<"0">>, <<"1">>, TextFull}
      THEN EnvErr("RUST_BACKTRACE")
    ELSE EnvOk

\* A number read from a variable with bounds: the value when it parses
\* within them; otherwise the default, with a warning unless the variable
\* is not set.
ParseBounded(var, min, max, default) ==
    IF var = None THEN [value |-> default, warned |-> FALSE]
    ELSE IF InRange(var[1], min, max)
      THEN [value |-> ParseU64(var[1]).value, warned |-> FALSE]
    ELSE [value |-> default, warned |-> TRUE]

\* NodeConfig::parse_shutdown_timeout
ParseShutdownTimeout(e) ==
    ParseBounded(EnvVar(e, "EV_RETH_SHUTDOWN_TIMEOUT"),
                 MIN_SHUTDOWN_TIMEOUT_SECS, MAX_SHUTDOWN_TIMEOUT_SECS,
                 DEFAULT_SHUTDOWN_TIMEOUT_SECS)

\* NodeConfig::parse_status_check_interval (its missing-variable arm logs
\* nothing at all)
ParseStatusCheckInterval(e) ==
    ParseBounded(EnvVar(e, "EV_RETH_STATUS_CHECK_INTERVAL"),
                 MIN_STATUS_CHECK_INTERVAL_SECS, MAX_STATUS_CHECK_INTERVAL_SECS,
                 DEFAULT_STATUS_CHECK_INTERVAL_SECS)

\* NodeConfig::from_env
FromEnv(e) ==
    [shutdown_timeout |-> ParseShutdownTimeout(e).value,
     status_check_interval |-> ParseStatusCheckInterval(e).value,
     enable_fallback_status_checks |->
         /\ EnvVar(e, "EV_RETH_ENABLE_FALLBACK_STATUS_CHECKS") # None
         /\ ToLowercase(EnvVar(e, "EV_RETH_ENABLE_FALLBACK_STATUS_CHECKS")[1])
                = TextTrue,
     max_fallback_checks |->
         IF /\ EnvVar(e, "EV_RETH_MAX_FALLBACK_CHECKS") # None
            /\ ParseU64(EnvVar(e, "EV_RETH_MAX_FALLBACK_CHECKS")[1]).ok
           THEN ParseU64(EnvVar(e, "EV_RETH_MAX_FALLBACK_CHECKS")[1]).value
         ELSE DEFAULT_MAX_FALLBACK_CHECKS]

\* The variables from_env logs a warning about (tracing::warn!).
FromEnvWarnings(e) ==
    {name \in {"EV_RETH_SHUTDOWN_TIMEOUT"} : ParseShutdownTimeout(e).warned}
        \cup {name \in {"EV_RETH_STATUS_CHECK_INTERVAL"} :
                  ParseStatusCheckInterval(e).warned}

NoConfig ==
    [shutdown_timeout |-> 0, status_check_interval |-> 0,
     enable_fallback_status_checks |-> FALSE, max_fallback_checks |-> 0]

NoEnvVars ==
    [EV_RETH_SHUTDOWN_TIMEOUT |-> None, EV_RETH_STATUS_CHECK_INTERVAL |-> None,
     EV_RETH_ENABLE_FALLBACK_STATUS_CHECKS |-> None,
     EV_RETH_MAX_FALLBACK_CHECKS |-> None, RUST_BACKTRACE |-> None]

\* The process exit status of a result the supervisor returns to main.
ExitStatus(result) == IF result = "Ok" THEN 0 ELSE 1

\* The first of the two events the supervisor waits on to happen.
FirstEvent(event) == IF first_event = "none" THEN event ELSE first_event

\* main, up to the select: the environment is validated (exit status 1 when
\* it is invalid), the node is launched and the configuration is loaded.
Main ==
    /\ spc = "start"
    /\ IF ~ValidateEnvVars(env_vars).ok
         THEN /\ spc' = "exited"
              /\ sres' = "EnvInvalid"
              /\ exit_status' = Some(1)
              /\ UNCHANGED <<config, warned>>
       ELSE /\ config' = FromEnv(env_vars)
            /\ warned' = FromEnvWarnings(env_vars)
            /\ spc' = "select"
            /\ UNCHANGED <<sres, exit_status>>
    /\ UNCHANGED <<coreVars, apiVars, validatorVars, poolVars, forwarderVars,
                   late_signal,
                   env_vars,
                   node_exit_future, handlers, sig, check_count, phases,
                   elapsed, first_event>>

\* handle_shutdown_signals, first poll: with a handler installed it waits
\* for a signal; with none it enters signal_fallback_mechanism.
HandleShutdownSignals ==
    /\ spc = "select"
    /\ sig = "install"
    /\ sig' = IF handlers.sigterm \/ handlers.sigint THEN "recv" ELSE "fallback"
    /\ UNCHANGED <<coreVars, apiVars, validatorVars, poolVars, forwarderVars,
                   late_signal,
                   env_vars,
                   config, spc, sres, exit_status, node_exit_future, handlers,
                   check_count, phases, warned, elapsed, first_event>>

\* Mutant: once the status checks are over the fallback returns.
SignalFallbackReturning ==
    /\ spc = "select"
    /\ sig = "fallback"
    /\ sig' = IF /\ config.enable_fallback_status_checks
                 /\ check_count < config.max_fallback_checks
                THEN "sleep"
              ELSE "ready"
    /\ UNCHANGED <<coreVars, apiVars, validatorVars, poolVars, forwarderVars,
                   late_signal,
                   env_vars,
                   config, spc, sres, exit_status, node_exit_future, handlers,
                   check_count, phases, warned, elapsed, first_event>>

\* signal_fallback_mechanism, at the head of its loop: another status check
\* when they are enabled and fewer than max_fallback_checks were made;
\* otherwise std::future::pending.
SignalFallbackMechanism ==
    /\ spc = "select"
    /\ sig = "fallback"
    /\ sig' = IF /\ config.enable_fallback_status_checks
                 /\ check_count < config.max_fallback_checks
                THEN "sleep"
              ELSE "pending"
    /\ UNCHANGED <<coreVars, apiVars, validatorVars, poolVars, forwarderVars,
                   late_signal,
                   env_vars,
                   config, spc, sres, exit_status, node_exit_future, handlers,
                   check_count, phases, warned, elapsed, first_event>>

\* The sleep of status_check_interval is over: check_count is incremented
\* and the periodic status check of that number is logged.
StatusCheck ==
    /\ spc = "select"
    /\ sig = "sleep"
    /\ check_count' = check_count + 1
    /\ sig' = "fallback"
    /\ UNCHANGED <<coreVars, apiVars, validatorVars, poolVars, forwarderVars,
                   late_signal,
                   env_vars,
                   config, spc, sres, exit_status, node_exit_future, handlers,
                   phases, warned, elapsed, first_event>>

\* A termination signal s whose handler is installed is delivered while
\* handle_shutdown_signals waits in recv.
Signal(s) ==
    /\ spc = "select"
    /\ sig = "recv"
    /\ handlers[s]
    /\ sig' = "ready"
    /\ first_event' = FirstEvent("signal")
    /\ UNCHANGED <<coreVars, apiVars, validatorVars, poolVars, forwarderVars,
                   late_signal,
                   env_vars,
                   config, spc, sres, exit_status, node_exit_future, handlers,
                   check_count, phases, warned, elapsed>>

\* The node exits on its own with result r: node_exit_future resolves.
NodeExit(r) ==
    /\ spc \in {"select", "shutdown"}
    /\ node_exit_future = "pending"
    /\ node_exit_future' = r
    /\ first_event' = FirstEvent("exit")
    /\ UNCHANGED <<coreVars, apiVars, validatorVars, poolVars, forwarderVars,
                   late_signal,
                   env_vars,
                   config, spc, sres, exit_status, handlers, sig, check_count,
                   phases, warned, elapsed>>

\* Mutant: the signal branch shuts the node down before it waits.
SelectShuttingNodeDown ==
    /\ spc = "select"
    /\ \/ /\ node_exit_future # "pending"
          /\ sres' = node_exit_future
          /\ exit_status' = Some(ExitStatus(node_exit_future))
          /\ spc' = "exited"
          /\ sig' = "dropped"
          /\ UNCHANGED <<phases, elapsed, node_exit_future>>
       \/ /\ sig = "ready"
          /\ phases' = 2
          /\ elapsed' = 0
          /\ spc' = "shutdown"
          /\ sig' = "done"
          /\ node_exit_future' = "Ok"
          /\ UNCHANGED <<sres, exit_status>>
    /\ UNCHANGED <<coreVars, apiVars, validatorVars, poolVars, forwarderVars, env_vars,
                   config, handlers, check_count, warned, first_event,
                   late_signal>>

\* tokio::select! over node_exit_future and handle_shutdown_signals: a
\* ready branch is taken, either of them when both are ready.  The natural
\* exit returns the node's result; the signal logs phases 1 and 2 and
\* starts timeout(shutdown_timeout, node_exit_future).
Select ==
    /\ spc = "select"
    /\ \/ /\ node_exit_future # "pending"
          /\ sres' = node_exit_future
          /\ exit_status' = Some(ExitStatus(node_exit_future))
          /\ spc' = "exited"
          /\ sig' = "dropped"
          /\ UNCHANGED <<phases, elapsed>>
       \/ /\ sig = "ready"
          /\ phases' = 2
          /\ elapsed' = 0
          /\ spc' = "shutdown"
          /\ sig' = "done"
          /\ UNCHANGED <<sres, exit_status>>
    /\ UNCHANGED <<coreVars, apiVars, validatorVars, poolVars, forwarderVars,
                   late_signal,
                   env_vars,
                   config, node_exit_future, handlers, check_count, warned,
                   first_event>>

\* A termination signal s whose handler is installed arrives during the
\* wait for the node: handle_shutdown_signals has completed and nothing of
\* the supervisor receives it.
FurtherSignal(s) ==
    /\ spc = "shutdown"
    /\ handlers[s]
    /\ ~late_signal
    /\ late_signal' = TRUE
    /\ UNCHANGED <<coreVars, apiVars, validatorVars, poolVars, forwarderVars, env_vars,
                   config, spc, sres, exit_status, node_exit_future,
                   handlers, sig, check_count, phases, warned, elapsed,
                   first_event>>

\* One second of the shutdown timeout passes.
Tick ==
    /\ spc = "shutdown"
    /\ elapsed < config.shutdown_timeout
    /\ elapsed' = elapsed + 1
    /\ UNCHANGED <<coreVars, apiVars, validatorVars, poolVars, forwarderVars,
                   late_signal,
                   env_vars,
                   config, spc, sres, exit_status, node_exit_future, handlers,
                   sig, check_count, phases, warned, first_event>>

\* Mutant: the wait for the node's exit has no timeout.
AwaitShutdownWithoutTimeout ==
    /\ spc = "shutdown"
    /\ node_exit_future # "pending"
    /\ sres' = node_exit_future
    /\ exit_status' = Some(ExitStatus(node_exit_future))
    /\ phases' = 3
    /\ spc' = "exited"
    /\ UNCHANGED <<coreVars, apiVars, validatorVars, poolVars, forwarderVars,
                   late_signal,
                   env_vars,
                   config, node_exit_future, handlers, sig, check_count,
                   warned, elapsed, first_event>>

\* Mutant: the timeout wins over a node exit that is ready with it.
AwaitShutdownPreferringTimeout ==
    /\ spc = "shutdown"
    /\ IF elapsed = config.shutdown_timeout
         THEN sres' = "GracefulShutdownTimeout"
       ELSE /\ node_exit_future # "pending"
            /\ sres' = node_exit_future
    /\ exit_status' = Some(ExitStatus(sres'))
    /\ phases' = 3
    /\ spc' = "exited"
    /\ UNCHANGED <<coreVars, apiVars, validatorVars, poolVars, forwarderVars,
                   late_signal,
                   env_vars,
                   config, node_exit_future, handlers, sig, check_count,
                   warned, elapsed, first_event>>

\* timeout(shutdown_timeout, node_exit_future) completes: with the node's
\* result when the future has resolved (it is polled before the deadline),
\* at the deadline with the timeout error otherwise.  Phase 3 is logged and
\* the result returned to main.
AwaitShutdown ==
    /\ spc = "shutdown"
    /\ IF node_exit_future # "pending"
         THEN sres' = node_exit_future
       ELSE /\ elapsed = config.shutdown_timeout
            /\ sres' = "GracefulShutdownTimeout"
    /\ exit_status' = Some(ExitStatus(sres'))
    /\ phases' = 3
    /\ spc' = "exited"
    /\ UNCHANGED <<coreVars, apiVars, validatorVars, poolVars, forwarderVars,
                   late_signal,
                   env_vars,
                   config, node_exit_future, handlers, sig, check_count,
                   warned, elapsed, first_event>>

\* The supervisor of a process not started, with the outcome h of the
\* installation of the signal handlers.
NewSupervisor(e, h) ==
    /\ env_vars = e
    /\ config = NoConfig
    /\ spc = "start"
    /\ sres = "none"
    /\ exit_status = None
    /\ node_exit_future = "pending"
    /\ handlers = h
    /\ sig = "install"
    /\ check_count = 0
    /\ phases = 0
    /\ warned = {}
    /\ elapsed = 0
    /\ first_event = "none"
    /\ late_signal = FALSE

IdleSupervisor == NewSupervisor(NoEnvVars, [sigterm |-> TRUE, sigint |-> TRUE])

(***************************************************************************)
(* Eth API wrapper (crates/node/src/eth_api_forwarder.rs)                  *)
(***************************************************************************)

\* jsonrpsee::types::error::INTERNAL_ERROR_CODE
INTERNAL_ERROR_CODE == -32603

RpcOk(value) == [ok |-> TRUE, value |-> value, code |-> 0, message |-> << >>]

\* ErrorObject::owned(code, message, None)
ErrorObject(code, message) ==
    [ok |-> FALSE, value |-> "-", code |-> code, message |-> message]

NoRpcResult == ErrorObject(0, <<"pending">>)

\* The methods of EthApiServer the wrapper sends to the remote endpoint, and
\* the JSON-RPC method each is sent as.
RemoteMethods == {"send_raw_transaction", "send_raw_transaction_sync"}

RemoteMethodName(method) ==
    IF method = "send_raw_transaction" THEN "eth_sendRawTransaction"
    ELSE "eth_sendRawTransactionSync"

\* The text the error of a failed forward is prefixed with.
ForwardFailure(method) ==
    IF method = "send_raw_transaction" THEN "Failed to forward transaction: "
    ELSE "Failed to forward transaction sync: "

\* Methods the wrapper passes to the inner API: send_transaction and the
\* meta / chain group.
InnerMethods ==
    {"send_transaction", "protocol_version", "syncing", "author", "accounts",
     "block_number", "chain_id"}

\* What the remote endpoint answers a request with: a value, an error
\* object of its own, or no answer at all (a transport error).
RemoteAnswers ==
    {[ok |-> TRUE, value |-> "remote-value", err |-> "-"],
     [ok |-> FALSE, value |-> "-", err |-> "Call"],
     [ok |-> FALSE, value |-> "-", err |-> "Transport"]}

\* What the inner API returns from a method.
InnerResults == {RpcOk("inner-value"), ErrorObject(-32602, <<"inner-error">>)}

\* The parameters of a call: a raw transaction or a transaction request.
RpcParams == {"tx-a", "tx-b"}

\* A client calls send_raw_transaction or send_raw_transaction_sync: the
\* request goes to the remote endpoint and the call awaits the answer.
SendRawTransaction(method, raw_tx) ==
    /\ Len(rpc_calls) < MaxRpcCalls
    /\ \A i \in DOMAIN rpc_calls : rpc_calls[i].done
    /\ rpc_calls' = Append(rpc_calls,
                           [method |-> method, param |-> raw_tx, done |-> FALSE,
                            res |-> NoRpcResult])
    /\ remote_requests' =
           Append(remote_requests,
                  [method |-> RemoteMethodName(method), params |-> <<raw_tx>>])
    /\ UNCHANGED <<coreVars, validatorVars, poolVars, forwarderVars,
                   supervisorVars, inner_calls, local_txs>>

\* Mutant: a forward that failed is retried on the inner API.
RemoteAnswerWithLocalFallback(answer) ==
    /\ rpc_calls # << >>
    /\ ~rpc_calls[Len(rpc_calls)].done
    /\ LET call == rpc_calls[Len(rpc_calls)]
       IN  /\ rpc_calls' =
                  [rpc_calls EXCEPT ![Len(rpc_calls)] =
                      [call EXCEPT !.done = TRUE,
                                   !.res = RpcOk(IF answer.ok THEN answer.value
                                                 ELSE "inner-value")]]
           /\ inner_calls' = IF answer.ok THEN inner_calls
                             ELSE Append(inner_calls, call.method)
           /\ local_txs' = IF answer.ok THEN local_txs
                           ELSE local_txs \cup {call.param}
    /\ UNCHANGED <<coreVars, validatorVars, poolVars, forwarderVars,
                   supervisorVars, remote_requests>>

\* The request completes: the remote's value is returned, and a failure is
\* mapped to an error object with the internal-error code.
RemoteAnswer(answer) ==
    /\ rpc_calls # << >>
    /\ ~rpc_calls[Len(rpc_calls)].done
    /\ LET call == rpc_calls[Len(rpc_calls)]
       IN  rpc_calls' =
               [rpc_calls EXCEPT ![Len(rpc_calls)] =
                   [call EXCEPT !.done = TRUE,
                                !.res = IF answer.ok THEN RpcOk(answer.value)
                                        ELSE ErrorObject(INTERNAL_ERROR_CODE,
                                                 <<ForwardFailure(call.method),
                                                   answer.err>>)]]
    /\ UNCHANGED <<coreVars, validatorVars, poolVars, forwarderVars,
                   supervisorVars, inner_calls, remote_requests, local_txs>>

\* A client calls a method the wrapper passes through: the inner API is
\* called and its result returned.  The inner send_transaction signs the
\* request and, when it succeeds, has put the transaction in the local pool.
PassThrough(method, param, result) ==
    /\ Len(rpc_calls) < MaxRpcCalls
    /\ \A i \in DOMAIN rpc_calls : rpc_calls[i].done
    /\ rpc_calls' = Append(rpc_calls,
                           [method |-> method, param |-> param, done |-> TRUE,
                            res |-> result])
    /\ inner_calls' = Append(inner_calls, method)
    /\ local_txs' = IF method = "send_transaction" /\ result.ok
                      THEN local_txs \cup {param}
                    ELSE local_txs
    /\ UNCHANGED <<coreVars, validatorVars, poolVars, forwarderVars,
                   supervisorVars, remote_requests>>

\* EthApiForwarder::new(inner, remote)
IdleApi ==
    /\ rpc_calls = << >>
    /\ inner_calls = << >>
    /\ remote_requests = << >>
    /\ local_txs = {}

(***************************************************************************)
(* Specifications                                                          *)
(***************************************************************************)

IdleValidator == execution_data = NoExecutionPayload /\ vres = NoValidation

IdlePool ==
    /\ pool = << >> /\ pending = << >> /\ max_bytes = 0
    /\ selected = NoSelection

\* TxForwarder::new(endpoint, queue_size, rate_limit_per_sec, ..) with n
\* callers about to use it.
NewForwarder(n, size) ==
    /\ queue_size = size
    /\ queue = size
    /\ limiter = MaxRate
    /\ fpc = [c \in 1 .. n |-> "idle"]
    /\ fresp = [c \in 1 .. n |-> NoResponse]
    /\ fres = [c \in 1 .. n |-> NoForward]
    /\ errors_total = NoErrors
    /\ closed = FALSE
    /\ ftrace = [c \in 1 .. n |-> << >>]

IdleForwarder == NewForwarder(0, 0)

IdleServices ==
    IdleValidator /\ IdlePool /\ IdleForwarder /\ IdleSupervisor /\ IdleApi

IdleConsensus == header = IdleHeader /\ parent = IdleHeader /\ cres = NoResult

IdleEngine ==
    /\ wire = NoWire /\ job = NoJob /\ first = NoCall /\ last = NoCall
    /\ best = None /\ cancel = None

GenesisChain == headers = GenesisHeaders /\ latest = GenesisState

\* validate_header_against_parent as a function of a drawn header pair
InitConsensus ==
    /\ header \in ChildHeaders
    /\ parent \in ParentHeaders
    /\ cres = NoResult
    /\ GenesisChain
    /\ IdleEngine
    /\ IdleServices

NextConsensus == ValidateHeader

SpecConsensus == InitConsensus /\ [][NextConsensus]_vars

\* build_payload called directly, on a chain the host extends
InitBuild == IdleConsensus /\ GenesisChain /\ IdleEngine /\ IdleServices

NextBuild ==
    \/ \E d \in {0, 1} : ImportBlock(d)
    \/ /\ first = NoCall
       /\ \E a \in BuildInputs(headers), f \in Faults : BuildPayloadCall(a, f)
    \/ BuildPayloadAgain

SpecBuild == InitBuild /\ [][NextBuild]_vars

\* the Engine API path: try_new, then try_build and build_empty_payload
InitEngine == IdleConsensus /\ GenesisChain /\ IdleEngine /\ IdleServices

NextEngine ==
    \/ /\ wire = NoWire
       /\ \E ph \in DOMAIN headers, w \in WireAttributes : NewPayloadJob(ph, w)
    \/ \E b \in BestPayloads(first), f \in {"none", "finish"} :
           TryBuildCall(b, f, None)
    \/ \E f \in {"none", "finish"} : BuildEmptyPayloadCall(f)

SpecEngine == InitEngine /\ [][NextEngine]_vars

\* Wire attributes that differ in their transactions and gas limit only.
CancelWires ==
    {w \in WireAttributes :
        /\ w.timestamp = 1 /\ w.prev_randao = 1 /\ w.suggested_fee_recipient = 1
        /\ w.withdrawals = None /\ w.parent_beacon_block_root = None}

\* The moments the host cancels the token of a build at: never, or once a
\* number of the job's transactions have been executed.
Cancels == {None} \cup {Some(k) : k \in 0 .. MaxTxs}

\* try_build under a cancel token the host cancels during the build
InitCancel == InitEngine

NextCancel ==
    \/ /\ wire = NoWire
       /\ \E ph \in DOMAIN headers, w \in CancelWires : NewPayloadJob(ph, w)
    \/ \E k \in Cancels, f \in {"none", "finish"} : TryBuildCall(None, f, k)

SpecCancel == InitCancel /\ [][NextCancel]_vars

\* The transaction lists and gas limits of the wire attributes whose payload
\* ids are compared: no list, the empty list, lists of one and of two
\* transactions, and a list that does not decode.
IdTransactions ==
    {None, Some(<< >>), Some(<<Encode2718([nonce |-> 0, sig_ok |-> TRUE])>>),
     Some(<<Encode2718([nonce |-> 0, sig_ok |-> TRUE]),
            Encode2718([nonce |-> 1, sig_ok |-> TRUE])>>),
     Some(<<<<9, 0, 1>>>>)}

IdGasLimits == {None, Some(1)}

IdWires ==
    [timestamp : {0, 1}, prev_randao : {0, 1}, suggested_fee_recipient : {0, 1},
     withdrawals : {None, Some(<<7>>)},
     parent_beacon_block_root : {None, Some(1)},
     transactions : IdTransactions, gas_limit : IdGasLimits]

\* payload jobs over every standard field, built once
InitPayloadId == InitEngine

NextPayloadId ==
    \/ /\ wire = NoWire
       /\ \E ph \in DOMAIN headers, w \in IdWires : NewPayloadJob(ph, w)
    \/ TryBuildCall(None, "none", None)
    \/ BuildEmptyPayloadCall("none")

SpecPayloadId == InitPayloadId /\ [][NextPayloadId]_vars

\* payload jobs on the blocks of a chain that grows
InitChainBuild == InitEngine

NextChainBuild ==
    \/ \E d \in {0, 1} : ImportBlock(d)
    \/ /\ wire = NoWire
       /\ \E ph \in DOMAIN headers, w \in IdWires : NewPayloadJob(ph, w)
    \/ TryBuildCall(None, "none", None)
    \/ BuildEmptyPayloadCall("none")

SpecChainBuild == InitChainBuild /\ [][NextChainBuild]_vars

IdleCore == IdleConsensus /\ GenesisChain /\ IdleEngine

\* ensure_well_formed_payload as a function of a drawn payload
InitValidator ==
    /\ IdleCore /\ IdleApi
    /\ execution_data \in ExecutionPayloads
    /\ vres = NoValidation
    /\ IdlePool
    /\ IdleForwarder
    /\ IdleSupervisor

NextValidator == ValidatePayload

SpecValidator == InitValidator /\ [][NextValidator]_vars

\* getTxs as a function of a drawn pool and byte cap
InitPool ==
    /\ IdleCore /\ IdleApi
    /\ IdleValidator
    /\ IdleForwarder
    /\ IdleSupervisor
    /\ pool \in Pools
    /\ pending \in PendingOrders(Len(pool))
    /\ max_bytes \in 0 .. (MaxPool * MaxTxBytes)
    /\ selected = NoSelection

NextPool == GetTxsCall \/ GetTxsPendingCall \/ SelectTransactionsCall

SpecPool == InitPool /\ [][NextPool]_vars

\* The steps of forward_raw with the responses drawn from a set.
NextForwardRaw(responses) ==
    \/ \E c \in DOMAIN fpc : ForwardRaw(c)
    \/ \E c \in DOMAIN fpc : AcquireOwned(c)
    \/ \E c \in DOMAIN fpc : UntilReady(c)
    \/ Replenish
    \/ \E c \in DOMAIN fpc :
           /\ fpc[c] = "send"
           /\ \E resp \in responses : Send(c, resp)
    \/ \E c \in DOMAIN fpc : ReadJson(c)
    \/ \E c \in DOMAIN fpc : DropForward(c)

\* concurrent callers of one forwarder, more of them than permits
InitForwarder ==
    /\ IdleCore /\ IdleApi /\ IdleValidator /\ IdlePool /\ IdleSupervisor
    /\ \E size \in 0 .. MaxQueueSize : NewForwarder(MaxCallers, size)

NextForwarder == NextForwardRaw(SaturationResponses)

SpecForwarder == InitForwarder /\ [][NextForwarder]_vars

\* one call of forward_raw, over every response
InitForward ==
    /\ IdleCore /\ IdleApi /\ IdleValidator /\ IdlePool /\ IdleSupervisor
    /\ NewForwarder(1, 1)

NextForward == NextForwardRaw(Responses)

SpecForward == InitForward /\ [][NextForward]_vars

\* concurrent callers of one forwarder whose queue may be closed
NextQueue == NextForwarder \/ CloseQueue

SpecQueue == InitForwarder /\ [][NextQueue]_vars

\* One response for each way forward_raw returns after its POST: a network
\* error, a non-2xx status, a body that is not JSON, a result string that
\* is not a hash, a hash, an error member, and a body with neither.
ReturnPathResponses ==
    {[sent |-> FALSE, status |-> 0, body |-> NoBody],
     [sent |-> TRUE, status |-> 500, body |-> NoBody],
     [sent |-> TRUE, status |-> 200, body |-> NoBody],
     [sent |-> TRUE, status |-> 200,
      body |-> [json |-> TRUE, result |-> [kind |-> "string", str |-> <<"z">>],
                error |-> FALSE]],
     [sent |-> TRUE, status |-> 200,
      body |-> [json |-> TRUE,
                result |-> [kind |-> "string", str |-> ZeroHashString],
                error |-> FALSE]],
     [sent |-> TRUE, status |-> 200,
      body |-> [json |-> TRUE, result |-> [kind |-> "absent", str |-> << >>],
                error |-> TRUE]],
     [sent |-> TRUE, status |-> 200,
      body |-> [json |-> TRUE, result |-> [kind |-> "absent", str |-> << >>],
                error |-> FALSE]]}

\* two callers of one forwarder, over every return path
InitPermits ==
    /\ IdleCore /\ IdleApi /\ IdleValidator /\ IdlePool /\ IdleSupervisor
    /\ \E size \in 0 .. MaxQueueSize : NewForwarder(2, size)

NextPermits == NextForwardRaw(ReturnPathResponses) \/ CloseQueue

SpecPermits == InitPermits /\ [][NextPermits]_vars

\* The runtime polls every future that can make progress, time passes, and
\* the upstream answers every POST.
FairPermits ==
    /\ WF_vars(Replenish)
    /\ \A c \in 1 .. 2 :
           /\ WF_vars(AcquireOwned(c))
           /\ WF_vars(UntilReady(c))
           /\ WF_vars(fpc[c] = "send" /\ \E resp \in ReturnPathResponses : Send(c, resp))
           /\ WF_vars(ReadJson(c))

SpecPermitsLive == SpecPermits /\ FairPermits

\* The texts an environment variable is set to at startup.
EnvTexts ==
    {<< >>, <<"0">>, <<"1">>, <<"+", "1">>, <<"3", "0", "0">>,
     <<"3", "0", "1">>, <<"2", "1", "6", "0", "0">>,
     <<"2", "1", "6", "0", "1">>, TextTrue, <<"T", "R", "U", "E">>,
     TextFalse, <<"x">>}

EnvValues == {None} \cup {Some(text) : text \in EnvTexts}

StartupEnvs ==
    [EV_RETH_SHUTDOWN_TIMEOUT : EnvValues,
     EV_RETH_STATUS_CHECK_INTERVAL : EnvValues,
     EV_RETH_ENABLE_FALLBACK_STATUS_CHECKS : EnvValues,
     EV_RETH_MAX_FALLBACK_CHECKS : EnvValues,
     RUST_BACKTRACE : {None, Some(<<"1">>), Some(<<"2">>)}]

\* Valid environments with a short timeout and few status checks.
SupervisorEnvs ==
    [EV_RETH_SHUTDOWN_TIMEOUT : {Some(U64Text(n)) : n \in 1 .. MaxShutdownTimeout},
     EV_RETH_STATUS_CHECK_INTERVAL : {None},
     EV_RETH_ENABLE_FALLBACK_STATUS_CHECKS : {None, Some(TextTrue)},
     EV_RETH_MAX_FALLBACK_CHECKS : {Some(U64Text(n)) : n \in 0 .. MaxFallbackChecks},
     RUST_BACKTRACE : {None}]

Handlers == [sigterm : BOOLEAN, sigint : BOOLEAN]

\* the startup of the process over every environment
InitEnv ==
    /\ IdleCore /\ IdleApi /\ IdleValidator /\ IdlePool /\ IdleForwarder
    /\ \E e \in StartupEnvs : NewSupervisor(e, [sigterm |-> TRUE, sigint |-> TRUE])

NextEnv == Main

SpecEnv == InitEnv /\ [][NextEnv]_vars

\* the supervisor from startup to process exit
InitSupervisor ==
    /\ IdleCore /\ IdleApi /\ IdleValidator /\ IdlePool /\ IdleForwarder
    /\ \E e \in SupervisorEnvs, h \in Handlers : NewSupervisor(e, h)

NextSupervisor ==
    \/ Main
    \/ HandleShutdownSignals
    \/ SignalFallbackMechanism
    \/ StatusCheck
    \/ \E s \in {"sigterm", "sigint"} : Signal(s)
    \/ \E r \in {"Ok", "Err"} : NodeExit(r)
    \/ Select
    \/ \E s \in {"sigterm", "sigint"} : FurtherSignal(s)
    \/ Tick
    \/ AwaitShutdown

SpecSupervisor == InitSupervisor /\ [][NextSupervisor]_vars

\* The runtime polls a task that can make progress and its timers fire; the
\* node's exit and the delivery of a signal are up to the environment.
FairSupervisor ==
    /\ WF_vars(Main)
    /\ WF_vars(HandleShutdownSignals)
    /\ WF_vars(SignalFallbackMechanism)
    /\ WF_vars(StatusCheck)
    /\ WF_vars(Select)
    /\ WF_vars(Tick)
    /\ WF_vars(AwaitShutdown)

SpecSupervisorLive == SpecSupervisor /\ FairSupervisor

\* clients calling the methods of the wrapped eth API one after another
InitApi ==
    /\ IdleCore /\ IdleValidator /\ IdlePool /\ IdleForwarder /\ IdleSupervisor
    /\ IdleApi

NextApi ==
    \/ \E m \in RemoteMethods, raw_tx \in RpcParams : SendRawTransaction(m, raw_tx)
    \/ \E answer \in RemoteAnswers : RemoteAnswer(answer)
    \/ \E m \in InnerMethods, param \in RpcParams, r \in InnerResults :
           PassThrough(m, param, r)

SpecApi == InitApi /\ [][NextApi]_vars

(***************************************************************************)
(* Claims                                                                  *)
(***************************************************************************)

Validated == cres # NoResult

Continuity ==
    /\ header.parent_hash = parent.hash
    /\ header.number = parent.number + 1

\* C1: for a child that continues the parent (parent hash and number) and
\* whose other fields the host accepts, validate_header_against_parent
\* returns Ok iff child.timestamp >= parent.timestamp, and for a smaller
\* timestamp returns TimestampIsInPast carrying the parent's and the child's
\* timestamps.
C1_TimestampRule ==
    (Validated /\ Continuity /\ header.rest = "Ok") =>
        /\ cres.ok <=> header.timestamp >= parent.timestamp
        /\ header.timestamp < parent.timestamp =>
               cres = TimestampIsInPast(parent.timestamp, header.timestamp)

C1_Witness ==
    /\ Validated /\ Continuity /\ header.rest = "Ok"
    /\ header.timestamp = parent.timestamp
    /\ cres.ok

\* C2: a child header that fails one of the host's other parent checks
\* (gas-limit bound, base fee, blob-gas fields) is rejected by the custom
\* validate_header_against_parent, also when its timestamp equals the
\* parent's.
C2_OtherChecksKept ==
    (Validated /\ ~HostOtherChecks(header, parent).ok) => ~cres.ok

\* C3 as stated: with no precondition on the other fields, a past timestamp
\* is never accepted and an equal timestamp is always accepted.
C3_AlwaysAcceptsEquality ==
    Validated =>
        /\ header.timestamp < parent.timestamp => ~cres.ok
        /\ header.timestamp = parent.timestamp => cres.ok

\* C3 amended: a past timestamp is never accepted, whatever the other
\* fields; an equal timestamp is accepted if and only if the child continues
\* the parent (parent hash and number), whatever the remaining fields: a
\* wrong parent hash gives ParentHashMismatch, a wrong number
\* ParentBlockNumberMismatch.
C3_EqualityAcceptedOnContinuity ==
    Validated =>
        /\ header.timestamp < parent.timestamp => ~cres.ok
        /\ header.timestamp = parent.timestamp =>
               /\ cres.ok <=> Continuity
               /\ header.parent_hash # parent.hash =>
                      cres = ParentHashMismatch(header.parent_hash, parent.hash)
               /\ (header.parent_hash = parent.hash
                   /\ header.number # parent.number + 1) =>
                      cres = ParentBlockNumberMismatch(parent.number,
                                                       header.number)

C3_Witness ==
    /\ Validated /\ Continuity
    /\ header.timestamp = parent.timestamp
    /\ header.rest # "Ok"
    /\ cres.ok

\* The transactions of txs at the indexes of I, in their order in txs.
RECURSIVE Subsequence(_, _, _)
Subsequence(txs, I, i) ==
    IF i > Len(txs) THEN << >>
    ELSE (IF i \in I THEN <<txs[i]>> ELSE << >>) \o Subsequence(txs, I, i + 1)

\* The indexes of the transactions a build executed, by outcome.
ExecutedIndexes(trace, ok) ==
    {trace[k].index : k \in {j \in DOMAIN trace :
                                trace[j].step = "execute" /\ trace[j].ok = ok}}

\* A completed direct call of build_payload whose parent is known, whose
\* gas limit is present and not zero, and which the host did not fail.
DirectBuild ==
    /\ last.op = "build_payload"
    /\ last.fault = "none"
    /\ last.attrs.parent_hash \in DOMAIN headers
    /\ IsSome(last.attrs.gas_limit)
    /\ Unwrap(last.attrs.gas_limit) # 0

SomeExecutionFailed == ExecutedIndexes(last.res.trace, FALSE) # {}

AllRecoverable ==
    \A i \in DOMAIN last.attrs.transactions : last.attrs.transactions[i].sig_ok

\* C4: for every transaction list in which some transactions fail
\* execution, build_payload returns Ok and the block's transactions are
\* exactly the input's transactions whose execution succeeded, in order.
C4_FailuresIsolated ==
    (DirectBuild /\ SomeExecutionFailed) =>
        /\ last.res.ok
        /\ last.res.block.transactions =
               Subsequence(last.attrs.transactions,
                           ExecutedIndexes(last.res.trace, TRUE), 1)

\* C4 holds of the lists whose senders can all be recovered.
FailuresIsolatedWhenRecoverable ==
    (DirectBuild /\ SomeExecutionFailed /\ AllRecoverable) =>
        /\ last.res.ok
        /\ last.res.block.transactions =
               Subsequence(last.attrs.transactions,
                           ExecutedIndexes(last.res.trace, TRUE), 1)
        /\ \A i \in DOMAIN last.attrs.transactions :
               i \in ExecutedIndexes(last.res.trace, TRUE)
                     \cup ExecutedIndexes(last.res.trace, FALSE)

\* C5: a transaction whose sender cannot be recovered is skipped: the
\* build does not fail, and every other transaction of the list is still
\* executed.
C5_UnrecoverableSkipped ==
    (DirectBuild /\ ~AllRecoverable) =>
        /\ last.res.ok
        /\ \A i \in DOMAIN last.attrs.transactions :
               last.attrs.transactions[i].sig_ok =>
                   i \in ExecutedIndexes(last.res.trace, TRUE)
                         \cup ExecutedIndexes(last.res.trace, FALSE)

\* C6: build_payload with gas_limit absent or zero fails with the
\* gas-limit error before any access to the state or header provider, for
\* every parent hash.
C6_GasLimitCheckedFirst ==
    (/\ last.op = "build_payload"
     /\ last.fault = "none"
     /\ (~IsSome(last.attrs.gas_limit) \/ last.attrs.gas_limit = Some(0))) =>
        /\ ~last.res.ok
        /\ last.res.err \in {"InvalidGasLimit", "GasLimitRequired"}
        /\ last.res.trace = << >>

\* C7: two build_payload calls with the same attributes on the same parent
\* return blocks with the same state root, receipts root, gas used and
\* body, whatever the host imported between them.
C7_Deterministic ==
    (last.op = "build_payload_again" /\ first.res.ok /\ last.res.ok) =>
        /\ last.attrs = first.attrs
        /\ last.res.block.state_root = first.res.block.state_root
        /\ last.res.block.receipts_root = first.res.block.receipts_root
        /\ last.res.block.gas_used = first.res.block.gas_used
        /\ last.res.block.transactions = first.res.block.transactions

\* The byte strings of the job's wire attributes (an absent list: none).
WireBlobs ==
    IF IsSome(wire.transactions) THEN Unwrap(wire.transactions) ELSE << >>

JobAccepted == wire # NoWire

\* C8: try_new returns either builder attributes whose transactions are
\* the decodings of all the byte strings, in order (none for an absent
\* list), or, if any byte string fails to decode, InvalidTransactionData
\* and no builder attributes; the host's state is untouched.
C8_DecodeAtomic ==
    JobAccepted =>
        /\ GenesisChain
        /\ IF \A i \in DOMAIN WireBlobs : NetworkDecode(WireBlobs[i]).ok
             THEN /\ job.ok
                  /\ Len(job.attrs.transactions) = Len(WireBlobs)
                  /\ \A i \in DOMAIN WireBlobs :
                         job.attrs.transactions[i] = NetworkDecode(WireBlobs[i]).tx
             ELSE /\ ~job.ok
                  /\ job.err = "InvalidTransactionData"
                  /\ job.attrs = NoBuilderAttributes

C8_Witness ==
    /\ JobAccepted
    /\ Len(WireBlobs) = MaxBlobs
    /\ NetworkDecode(WireBlobs[1]).ok
    /\ ~NetworkDecode(WireBlobs[MaxBlobs]).ok
    /\ ~job.ok

\* A try_build call that reached the host block builder.
BuiltEnv == last.op = "try_build" /\ last.res.env # NoEnv

\* C9 as stated: every standard field of the wire attributes, and the gas
\* limit, reaches the next-block environment with the caller's value.
C9_AllFieldsForwarded ==
    BuiltEnv =>
        /\ last.res.env.timestamp = wire.timestamp
        /\ last.res.env.prev_randao = wire.prev_randao
        /\ last.res.env.suggested_fee_recipient = wire.suggested_fee_recipient
        /\ last.res.env.withdrawals = wire.withdrawals
        /\ last.res.env.parent_beacon_block_root = wire.parent_beacon_block_root
        /\ job.attrs.gas_limit = wire.gas_limit
        /\ Some(last.res.env.gas_limit) = wire.gas_limit

\* C9 amended: timestamp, prev-randao, suggested fee recipient and the gas
\* limit reach the next-block environment with the caller's values;
\* withdrawals and the parent beacon block root are kept by try_new in the
\* builder attributes but not forwarded: the environment always carries no
\* withdrawals and an all-zero parent beacon block root.
C9_ForwardedFields ==
    /\ (JobAccepted /\ job.ok) =>
           /\ job.attrs.gas_limit = wire.gas_limit
           /\ job.attrs.ethereum_attributes.parent_beacon_block_root =
                  wire.parent_beacon_block_root
           /\ job.attrs.ethereum_attributes.withdrawals =
                  (IF IsSome(wire.withdrawals) THEN Unwrap(wire.withdrawals)
                                              ELSE << >>)
    /\ BuiltEnv =>
           /\ last.res.env.timestamp = wire.timestamp
           /\ last.res.env.prev_randao = wire.prev_randao
           /\ last.res.env.suggested_fee_recipient = wire.suggested_fee_recipient
           /\ Some(last.res.env.gas_limit) = wire.gas_limit
           /\ last.res.env.withdrawals = None
           /\ last.res.env.parent_beacon_block_root = Some(0)

C9_Witness ==
    /\ BuiltEnv
    /\ last.res.ok
    /\ IsSome(wire.withdrawals)
    /\ wire.parent_beacon_block_root = Some(1)
    /\ wire.prev_randao # wire.suggested_fee_recipient
    /\ wire.timestamp = 1

\* The attributes build_payload gets for the job with its transaction list
\* replaced by the empty list.
JobAttributesEmptied ==
    [TryBuildAttributes(job.attrs,
                        headers[job.attrs.ethereum_attributes.parent])
        EXCEPT !.transactions = << >>]

\* C10: with an empty transaction list, a known parent and a non-zero gas
\* limit the build succeeds with a block of no transactions; and
\* build_empty_payload returns the block build_payload returns for the
\* job's attributes with the transaction list emptied, whatever
\* transactions the attributes carry.
C10_EmptyPayload ==
    /\ (/\ last.op \in {"try_build", "build_empty_payload"}
        /\ last.attrs.transactions = << >>
        /\ last.fault = "none"
        /\ IsSome(last.attrs.gas_limit)
        /\ Unwrap(last.attrs.gas_limit) # 0) =>
           /\ last.res.ok
           /\ Len(last.res.block.transactions) = 0
    /\ last.op = "build_empty_payload" =>
           /\ last.res = BuildPayload(JobAttributesEmptied, headers, latest,
                                      last.fault)
           /\ last.res.ok => last.payload.block = last.res.block

C10_Witness ==
    /\ last.op = "build_empty_payload"
    /\ Len(job.attrs.transactions) = MaxBlobs
    /\ last.res.ok
    /\ last.payload.block.transactions = << >>
    /\ BuildPayload(TryBuildAttributes(job.attrs,
                         headers[job.attrs.ethereum_attributes.parent]),
                    headers, latest, "none").block.transactions # << >>

\* A try_build call whose build succeeded.
TryBuilt == last.op = "try_build" /\ last.res.ok

\* C11: try_build returns Better only if the built payload's fees are
\* strictly greater than best_payload's; otherwise, ties included, it
\* returns Aborted carrying the built payload's fees, so a rebuild against
\* the payload an earlier call returned never replaces it; with no
\* best_payload it returns Better.
C11_BetterOnlyIfStrictlyGreater ==
    TryBuilt =>
        /\ last.outcome \in {"Better", "Aborted"}
        /\ ~IsSome(best) => last.outcome = "Better"
        /\ IsSome(best) =>
               (last.outcome = "Better"
                    <=> last.res.block.gas_used > Unwrap(best).fees)
        /\ last.outcome = "Aborted" =>
               /\ last.payload.fees = last.res.block.gas_used
               /\ last.payload.block = NoBlock
        /\ last.outcome = "Better" =>
               /\ last.payload.fees = last.res.block.gas_used
               /\ last.payload.block = last.res.block
               /\ last.payload.id = job.attrs.ethereum_attributes.id
        /\ (first.op = "try_build" /\ best = Some(first.payload)) =>
               last.outcome = "Aborted"

C11_Witness ==
    /\ TryBuilt
    /\ IsSome(best)
    /\ last.outcome = "Aborted"
    /\ last.payload.fees = Unwrap(best).fees
    /\ last.payload.fees > 0
    /\ best = Some(first.payload)
PayloadValidated == vres # NoValidation

HostVerdict == InnerEnsureWellFormedPayload(execution_data)

SendersRecoverable ==
    \A i \in DOMAIN execution_data.transactions :
        execution_data.transactions[i].sig_ok

\* The block ensure_well_formed_payload returns for the payload: its
\* content, sealed with the locally computed hash.
ResealedBlock ==
    [hash |-> SealSlow([transactions |-> execution_data.transactions]),
     transactions |-> execution_data.transactions,
     senders |-> [i \in DOMAIN execution_data.transactions |-> "signer"]]

\* C12 as stated: the block is returned when the host validator succeeds,
\* and, resealed with the local hash, when it fails with a block-hash
\* mismatch; any other error is returned unchanged with no block.
C12_BypassAsStated ==
    PayloadValidated =>
        /\ HostVerdict.ok => (vres.ok /\ vres.block = ResealedBlock)
        /\ HostVerdict.err = "BlockHash" =>
               (vres.ok /\ vres.block = ResealedBlock)
        /\ (~HostVerdict.ok /\ HostVerdict.err # "BlockHash") =>
               vres = ValidatorErr("Eth", HostVerdict.err)

\* C12 amended: as stated when the sender of every transaction of the
\* payload can be recovered; when the host validator succeeds or fails with
\* a block-hash mismatch and some sender cannot be recovered, a recovery
\* error (NewPayloadError::Other) is returned and no block.
C12_BypassWhenRecoverable ==
    PayloadValidated =>
        /\ (HostVerdict.ok \/ HostVerdict.err = "BlockHash") =>
               IF SendersRecoverable
                 THEN vres.ok /\ vres.block = ResealedBlock
                 ELSE vres = ValidatorErr("Other", "RecoveryError")
        /\ (~HostVerdict.ok /\ HostVerdict.err # "BlockHash") =>
               vres = ValidatorErr("Eth", HostVerdict.err)

C12_Witness ==
    /\ PayloadValidated
    /\ HostVerdict.err = "BlockHash"
    /\ Len(execution_data.transactions) = MaxTxs
    /\ vres.ok
    /\ vres.block.hash # execution_data.block_hash
GotTxs == selected.impl \in {"evolve", "rollkit"}

RECURSIVE TotalBytes(_)
TotalBytes(blobs) ==
    IF blobs = << >> THEN 0
    ELSE Len(BlobBytes(Head(blobs))) + TotalBytes(Tail(blobs))

\* The returned list stands for a prefix of the pool's best order.
IsBestPrefix(blobs) ==
    /\ Len(blobs) <= Len(pool)
    /\ \A i \in DOMAIN blobs : BlobBytes(blobs[i]) = EncodedBytes(pool[i])

\* C13: the list getTxs returns has total encoded length <= max_bytes and
\* is a prefix of the pool's best-transactions priority order, for any pool
\* and any max_bytes, in both implementations of getTxs.
C13_CappedBestPrefix ==
    GotTxs =>
        /\ TotalBytes(selected.txs) <= max_bytes
        /\ IsBestPrefix(selected.txs)

\* C13 holds of the implementation that iterates best_transactions().
CappedBestPrefixInEvolve ==
    (GotTxs /\ selected.impl = "evolve") =>
        /\ TotalBytes(selected.txs) <= max_bytes
        /\ IsBestPrefix(selected.txs)

\* The implementation that iterates pending_transactions() keeps the cap.
CappedInRollkit ==
    (GotTxs /\ selected.impl = "rollkit") =>
        TotalBytes(selected.txs) <= max_bytes
\* C14: the number of forward_raw calls that hold a permit (in flight to
\* the sequencer) never exceeds the configured queue_size, and the permits
\* are conserved.
C14_InFlightBounded ==
    /\ Cardinality(InFlight) <= queue_size
    /\ queue + Cardinality(InFlight) = queue_size

C14_Witness ==
    /\ queue_size >= 1
    /\ Cardinality(InFlight) = queue_size
    /\ \E c \in DOMAIN fpc : fpc[c] = "acquire"
    /\ \E c \in DOMAIN fpc : fpc[c] = "done"
\* Caller c's call read the JSON body of a 2xx response and returned.
ClassifiedBody(c) ==
    /\ fpc[c] = "done"
    /\ fresp[c] # NoResponse
    /\ fresp[c].body.json
    /\ fres[c].err # "dropped"

\* str is k repetitions of "0x" followed by exactly 2 * HashBytes hex
\* digits.
IsPrefixedHash(str, k) ==
    /\ Len(str) = 2 * k + 2 * HashBytes
    /\ \A i \in 1 .. k : str[2 * i - 1] = "0" /\ str[2 * i] = "x"
    /\ \A i \in (2 * k + 1) .. Len(str) : IsHexDigit(str[i])

IsHashString(str) == \E k \in 0 .. Len(str) : IsPrefixedHash(str, k)

\* The hash a hash string stands for: the bytes of its last 2 * HashBytes
\* digits.
HashOf(str) ==
    LET off == Len(str) - 2 * HashBytes
    IN  [i \in 1 .. HashBytes |->
            16 * HexValue(str[off + 2 * i - 1]) + HexValue(str[off + 2 * i])]

\* C15 as stated: a 2xx JSON body that contains `result' gives the hash it
\* holds, or InvalidHash if it is not a hash in hex; else a body that
\* contains `error' gives UpstreamError(body); any other body gives
\* UnexpectedBody(body).
C15_ClassifiedByResultMember ==
    \A c \in DOMAIN fpc :
        ClassifiedBody(c) =>
            LET body == fresp[c].body
            IN  IF body.result.kind # "absent"
                  THEN IF body.result.kind = "string"
                          /\ IsHashString(body.result.str)
                         THEN fres[c] = ForwardOk(HashOf(body.result.str))
                         ELSE fres[c] = ForwardError("InvalidHash", 0, NoBody)
                ELSE IF body.error
                  THEN fres[c] = ForwardError("UpstreamError", 0, body)
                ELSE fres[c] = ForwardError("UnexpectedBody", 0, body)

\* C15 amended: only a `result' member that is a JSON string counts: it
\* gives the hash it holds (any leading "0x" removed, then exactly the hex
\* digits of a hash) or InvalidHash; a body with no `result' or with a
\* `result' that is no string gives UpstreamError(body) if it contains
\* `error' and UnexpectedBody(body) otherwise.  The body with the all-zero
\* hash string gives the all-zero hash.
C15_ClassifiedByResultString ==
    \A c \in DOMAIN fpc :
        ClassifiedBody(c) =>
            LET body == fresp[c].body
            IN  /\ IF body.result.kind = "string"
                     THEN IF IsHashString(body.result.str)
                            THEN fres[c] = ForwardOk(HashOf(body.result.str))
                            ELSE fres[c] = ForwardError("InvalidHash", 0, NoBody)
                   ELSE IF body.error
                     THEN fres[c] = ForwardError("UpstreamError", 0, body)
                   ELSE fres[c] = ForwardError("UnexpectedBody", 0, body)
                /\ (body.result.kind = "string"
                    /\ body.result.str = ZeroHashString) =>
                       fres[c] = ForwardOk(ZeroHash)

C15_Witness ==
    \E c \in DOMAIN fpc :
        /\ ClassifiedBody(c)
        /\ fresp[c].body.result.kind = "string"
        /\ fresp[c].body.result.str = ZeroHashString
        /\ fresp[c].body.error
        /\ fres[c] = ForwardOk(ZeroHash)
\* C16: a call whose response has a non-2xx status s returns HttpStatus(s),
\* and that call adds one to the tx_forwarder_errors_total counter of the
\* class named by the decimal text of s.
C16_StatusCounted ==
    [][\A c \in DOMAIN fpc :
          (fpc[c] = "send" /\ fpc'[c] = "done" /\ fres'[c].err # "Network") =>
              LET s == fres'[c].status
              IN  /\ fres'[c] = ForwardError("HttpStatus", s, NoBody)
                  /\ ~IsSuccess(s)
                  /\ errors_total'.value[StatusClass(s)] =
                         errors_total.value[StatusClass(s)] + 1]_vars
\* The supervisor returned to main through the shutdown timeout.
TimedOut == sres = "GracefulShutdownTimeout"

\* C17: once a termination signal has been delivered to the supervisor it
\* returns, with no more than shutdown_timeout spent waiting for the node;
\* if the node's exit future has not resolved by then it returns the
\* graceful-shutdown-timeout error after exactly shutdown_timeout, and the
\* process exits with status 1.
C17_ShutdownBounded ==
    /\ [](elapsed <= config.shutdown_timeout)
    /\ [](TimedOut =>
              /\ spc = "exited"
              /\ node_exit_future = "pending"
              /\ elapsed = config.shutdown_timeout
              /\ exit_status = Some(1))
    /\ (sig = "ready") ~> (spc = "exited")
    /\ (spc = "shutdown") ~>
           (spc = "exited" /\ (TimedOut \/ node_exit_future # "pending"))

C17_Witness ==
    /\ TimedOut
    /\ first_event = "signal"
    /\ config.shutdown_timeout = MaxShutdownTimeout
    /\ elapsed = MaxShutdownTimeout
    /\ exit_status = Some(1)

\* The supervisor returned the result of the select to main.
Supervised == spc = "exited" /\ sres # "EnvInvalid"

\* C18 as stated: when the node's exit comes before any signal, the node's
\* result is returned and no shutdown phase is entered; when a signal comes
\* first and the node exits before the timeout, the node's own result is
\* returned, not the timeout error.
C18_FirstEventDecides ==
    Supervised =>
        /\ first_event = "exit" =>
               sres = node_exit_future /\ phases = 0
        /\ (first_event = "signal" /\ node_exit_future # "pending") =>
               sres = node_exit_future /\ ~TimedOut

\* C18 amended: whenever the node's exit future has resolved by the time
\* the supervisor returns, the node's own result is returned, never the
\* timeout error, and a resolved exit future always makes the supervisor
\* return it.  The shutdown phases are skipped exactly when the select took
\* the natural-exit branch, which it does for certain only if no signal was
\* received before it observed the exit: a signal received after the exit
\* but before the select ran may still send it through the three phases.
C18_NodeResultPropagated ==
    /\ [](Supervised =>
              /\ node_exit_future # "pending" => sres = node_exit_future
              /\ sig # "done" =>
                     /\ phases = 0
                     /\ node_exit_future # "pending"
                     /\ sres = node_exit_future
              /\ sig = "done" => phases = 3 /\ first_event # "none")
    /\ [](spc = "select" => sres = "none" /\ phases = 0)
    /\ (spc \in {"select", "shutdown"} /\ node_exit_future # "pending") ~>
           (spc = "exited" /\ sres = node_exit_future)

C18_Witness ==
    /\ Supervised
    /\ first_event = "signal"
    /\ phases = 3
    /\ elapsed = config.shutdown_timeout
    /\ sres = "Err"
    /\ exit_status = Some(1)

\* The supervisor variables whose value in the environment is set but
\* unparsable or out of range.
InvalidVars ==
    {name \in {"EV_RETH_SHUTDOWN_TIMEOUT"} :
         /\ env_vars[name] # None
         /\ \/ ~ParseU64(env_vars[name][1]).ok
            \/ ParseU64(env_vars[name][1]).value \notin 1 .. 300}
    \cup {name \in {"EV_RETH_STATUS_CHECK_INTERVAL"} :
              /\ env_vars[name] # None
              /\ \/ ~ParseU64(env_vars[name][1]).ok
                 \/ ParseU64(env_vars[name][1]).value \notin 1 .. 21600}
    \cup {name \in {"EV_RETH_ENABLE_FALLBACK_STATUS_CHECKS"} :
              /\ env_vars[name] # None
              /\ ToLowercase(env_vars[name][1]) \notin {TextTrue, TextFalse}}
    \cup {name \in {"EV_RETH_MAX_FALLBACK_CHECKS"} :
              /\ env_vars[name] # None
              /\ ~ParseU64(env_vars[name][1]).ok}

\* The value the loaded configuration has for a variable is its default.
HasDefault(name) ==
    CASE name = "EV_RETH_SHUTDOWN_TIMEOUT" -> config.shutdown_timeout = 15
      [] name = "EV_RETH_STATUS_CHECK_INTERVAL" ->
             config.status_check_interval = 3600
      [] name = "EV_RETH_ENABLE_FALLBACK_STATUS_CHECKS" ->
             ~config.enable_fallback_status_checks
      [] name = "EV_RETH_MAX_FALLBACK_CHECKS" ->
             config.max_fallback_checks = 24

\* C19: a supervisor variable with an unparsable or out-of-range value at
\* startup makes the node log a warning about it, keep starting and run
\* with the default value of that variable; the configuration the node runs
\* with has shutdown_timeout in 1..300 and status_check_interval in
\* 1..21600.
C19_InvalidFallsBackToDefault ==
    spc # "start" =>
        /\ \A name \in InvalidVars :
               /\ spc # "exited"
               /\ name \in warned
               /\ HasDefault(name)
        /\ spc = "select" =>
               /\ config.shutdown_timeout \in 1 .. 300
               /\ config.status_check_interval \in 1 .. 21600

AllHandlersFailed == ~handlers.sigterm /\ ~handlers.sigint

\* C20: with no signal handler installed the signal branch never completes:
\* the periodic status checks logged never exceed max_fallback_checks, none
\* is logged when they are disabled, the branch blocks for good once
\* exactly max_fallback_checks (or, disabled, none) were logged, and it
\* gets there unless the node exits before; the supervisor returns only
\* the result of the node's natural exit and enters no shutdown phase.
C20_FallbackNeverCompletes ==
    /\ [](AllHandlersFailed /\ spc # "start" =>
              /\ sig \notin {"recv", "ready", "done"}
              /\ spc # "shutdown" /\ phases = 0 /\ ~TimedOut
              /\ check_count <= config.max_fallback_checks
              /\ ~config.enable_fallback_status_checks => check_count = 0
              /\ sig = "pending" =>
                     check_count = IF config.enable_fallback_status_checks
                                     THEN config.max_fallback_checks
                                   ELSE 0
              /\ spc = "exited" =>
                     /\ node_exit_future # "pending"
                     /\ sres = node_exit_future)
    /\ [][AllHandlersFailed /\ sig = "pending" =>
              sig' \in {"pending", "dropped"} /\ check_count' = check_count]_vars
    /\ (AllHandlersFailed /\ spc = "select") ~>
           (sig = "pending" \/ spc = "exited")

C20_Witness ==
    /\ AllHandlersFailed
    /\ config.enable_fallback_status_checks
    /\ config.max_fallback_checks = MaxFallbackChecks
    /\ check_count = MaxFallbackChecks
    /\ sig = "pending"
    /\ spc = "select"
\* The wrapper form of the parent check: the host's check is run, a
\* TimestampIsInPast it reports for equal timestamps becomes success, and
\* every other result is returned as it is.
WrapperValidateHeaderAgainstParent(h, p) ==
    LET host == InnerValidateHeaderAgainstParent(h, p)
    IN  IF host.err = "TimestampIsInPast" /\ h.timestamp = p.timestamp
          THEN CheckOk
        ELSE host

\* C21: validate_header_against_parent returns, for every header pair, the
\* result of the wrapper form; so a header that breaks parent-hash
\* continuity, number continuity or both is rejected with the host's error.
C21_DirectEqualsWrapper ==
    Validated => cres = WrapperValidateHeaderAgainstParent(header, parent)
\* C22: a try_build whose cancel token is cancelled while transactions
\* remain executes no further transaction and does not call finish.
C22_CancelStopsBuild ==
    (TryBuilt /\ cancel # None /\ cancel[1] < Len(last.attrs.transactions)) =>
        \A i \in 1 .. Len(last.res.trace) :
            /\ last.res.trace[i].step # "finish"
            /\ last.res.trace[i].step \in {"recover", "execute"} =>
                   last.res.trace[i].index <= cancel[1]
\* A call of build_payload, direct or repeated, has returned.
BuildReturned == last.op \in {"build_payload", "build_payload_again"}

\* The place of a step in a run of build_payload over n transactions.
StepRank(s, n) ==
    CASE s.step = "latest" -> 1
      [] s.step = "header" -> 2
      [] s.step = "builder_for_next_block" -> 3
      [] s.step = "apply_pre_execution_changes" -> 4
      [] s.step \in {"recover", "execute"} -> 4 + s.index
      [] s.step = "finish" -> 5 + n

\* C23: the steps of a build_payload run are, in this order and each at
\* most once, the pre-execution changes, the transactions in list order
\* and finish, the run stopping at the first step that is fatal; a block
\* is returned only by a run that has gone through every transaction and
\* then exactly one successful finish, and its state root is that of the
\* state after the executed transactions; a run in which finish or an
\* earlier fatal step fails returns an error and no block.
C23_StepsInOrder ==
    /\ [](BuildReturned =>
              LET trace == last.res.trace
                  n == Len(last.attrs.transactions)
              IN  /\ \A k \in DOMAIN trace : StepRank(trace[k], n) = k
                  /\ \A k \in DOMAIN trace :
                         (k < Len(trace) /\ trace[k].step # "execute") =>
                             trace[k].ok
                  /\ last.res.ok <=>
                         /\ Len(trace) = n + 5
                         /\ trace[Len(trace)].step = "finish"
                         /\ trace[Len(trace)].ok
                  /\ ~last.res.ok => last.res.block = NoBlock
                  /\ last.res.ok =>
                         last.res.block.transactions =
                             Subsequence(last.attrs.transactions,
                                         ExecutedIndexes(trace, TRUE), 1))
    /\ [][(last' # last /\ last'.op \in {"build_payload", "build_payload_again"}
               /\ last'.res.ok) =>
              last'.res.block.state_root =
                  latest.nonce
                      + Cardinality(ExecutedIndexes(last'.res.trace, TRUE))]_vars

C23_Witness ==
    /\ BuildReturned
    /\ last.res.ok
    /\ Len(last.attrs.transactions) = MaxTxs
    /\ ExecutedIndexes(last.res.trace, TRUE) # {}
    /\ SomeExecutionFailed
\* A selection by the implementations C24 names has returned.
Selected == selected.impl \in {"evolve", "select"}

\* The returned list is the longest prefix of the pool's best order whose
\* total size is within the cap.
IsLongestBestPrefix(blobs) ==
    /\ IsBestPrefix(blobs)
    /\ TotalBytes(blobs) <= max_bytes
    /\ Len(blobs) < Len(pool) =>
           TotalBytes(blobs) + EncodedLength(pool[Len(blobs) + 1]) > max_bytes

\* C24: the list returned is exactly the longest prefix of the pool's
\* priority order whose cumulative size is <= max_bytes (a candidate that
\* brings the total to exactly max_bytes is in, nothing is taken after the
\* first candidate that does not fit), and it is empty for max_bytes = 0.
C24_LongestBestPrefix ==
    Selected =>
        /\ IsLongestBestPrefix(selected.txs)
        /\ max_bytes = 0 => selected.txs = << >>

\* C24 holds of get_txs, which iterates best_transactions().
LongestBestPrefixInEvolve ==
    selected.impl = "evolve" =>
        /\ IsLongestBestPrefix(selected.txs)
        /\ max_bytes = 0 => selected.txs = << >>

\* The number of times step occurs in a call's trace.
StepCount(c, step) ==
    Cardinality({i \in 1 .. Len(ftrace[c]) : ftrace[c][i] = step})

RECURSIVE SumSteps(_, _)
SumSteps(callers, step) ==
    IF callers = {} THEN 0
    ELSE LET c == CHOOSE x \in callers : TRUE
         IN  StepCount(c, step) + SumSteps(callers \ {c}, step)

TokensGranted == SumSteps(DOMAIN ftrace, "token")
PostsSent == SumSteps(DOMAIN ftrace, "post")

\* Step a comes before step b in the trace of c, whenever b is in it.
StepBefore(c, a, b) ==
    \A i \in 1 .. Len(ftrace[c]) :
        ftrace[c][i] = b => \E j \in 1 .. (i - 1) : ftrace[c][j] = a

\* C25: each call sends its POST only after it acquired a permit and then a
\* rate-limiter token, in that order, so that the POSTs sent never outnumber
\* the tokens granted; a call that finds the semaphore closed returns
\* Shutdown, having taken no token and sent no request.
C25_PermitTokenPost ==
    /\ [](/\ \A c \in DOMAIN fpc :
                /\ StepBefore(c, "token", "post")
                /\ StepBefore(c, "permit", "token")
                /\ StepCount(c, "post") <= StepCount(c, "token")
                /\ fres[c].err = "Shutdown" =>
                       /\ fpc[c] = "done"
                       /\ ftrace[c] = << >>
          /\ PostsSent <= TokensGranted)
    /\ [][\A c \in DOMAIN fpc :
             (closed /\ fpc[c] = "acquire" /\ fpc'[c] # "acquire") =>
                 /\ fpc'[c] = "done"
                 /\ fres'[c].err \in {"Shutdown", "dropped"}
                 /\ limiter' = limiter
                 /\ ftrace'[c] = << >>]_vars

C25_Witness ==
    /\ closed
    /\ \E c \in DOMAIN fpc : fres[c].err = "Shutdown"
    /\ \E c \in DOMAIN fpc :
           /\ fpc[c] = "done"
           /\ ftrace[c] = <<"permit", "token", "post", "release">>
    /\ PostsSent = 2

\* RollkitEnginePayloadBuilderAttributes::payload_id
PayloadIdOf(attributes) == attributes.ethereum_attributes.id

\* The wire attributes that differ from w in `transactions' and `gasLimit'
\* at most.
SiblingWires(w) ==
    {[w EXCEPT !.transactions = t, !.gas_limit = g] :
        t \in IdTransactions, g \in IdGasLimits}

\* C26: the payload id is a function of the parent hash and of the standard
\* Ethereum attribute fields only: every wire record that differs from the
\* job's in its transactions and gas limit at most gets the job's payload
\* id on the same parent, and a payload built for the job carries that id
\* whatever its transactions are.
C26_PayloadIdIgnoresTransactions ==
    job.ok =>
        /\ PayloadIdOf(job.attrs) =
               <<job.attrs.ethereum_attributes.parent, wire.timestamp,
                 wire.prev_randao, wire.suggested_fee_recipient,
                 wire.withdrawals, wire.parent_beacon_block_root>>
        /\ \A w \in SiblingWires(wire) :
               LET other == TryNew(job.attrs.ethereum_attributes.parent, w)
               IN  other.ok => PayloadIdOf(other.attrs) = PayloadIdOf(job.attrs)
        /\ last.outcome \in {"Better", "Payload"} =>
               last.payload.id = PayloadIdOf(job.attrs)

C26_Witness ==
    /\ job.ok
    /\ last.outcome = "Better"
    /\ Len(last.payload.block.transactions) = 1
    /\ \E w \in SiblingWires(wire) :
           LET other == TryNew(job.attrs.ethereum_attributes.parent, w)
           IN  /\ other.ok
               /\ Len(other.attrs.transactions) = 2
               /\ other.attrs.gas_limit # job.attrs.gas_limit
               /\ PayloadIdOf(other.attrs) = last.payload.id

\* The parent header the host resolved for the job, as the parent check
\* reads it.
ResolvedParent ==
    LET hash == job.attrs.ethereum_attributes.parent
    IN  [hash |-> hash, number |-> headers[hash].number,
         timestamp |-> headers[hash].timestamp]

\* The header of a built block as the parent check reads it, the host's
\* gas-limit, base-fee and blob-gas checks passing.
BuiltHeader(block) ==
    [parent_hash |-> block.parent_hash, number |-> block.number,
     timestamp |-> block.timestamp, rest |-> "Ok"]

\* The engine path returned a sealed block for the job's attributes, which
\* the engine validator accepted against the parent header.
BuiltForJob ==
    /\ job.ok
    /\ ValidatePayloadAttributesAgainstHeader(
           job.attrs, headers[job.attrs.ethereum_attributes.parent]) = "Ok"
    /\ last.outcome \in {"Better", "Payload"}

\* C27: every sealed block the build path returns for attributes the engine
\* validator accepted passes validate_header_against_parent against the
\* resolved parent header; in particular its timestamp is not below the
\* parent's.
C27_BuiltBlockPassesParentCheck ==
    BuiltForJob =>
        /\ ValidateHeaderAgainstParent(BuiltHeader(last.payload.block),
                                       ResolvedParent).ok
        /\ last.payload.block.timestamp >= ResolvedParent.timestamp

\* The calls of a log whose method is in a set, in order.
RECURSIVE CallsOf(_, _)
CallsOf(calls, methods) ==
    IF calls = << >> THEN << >>
    ELSE (IF Head(calls).method \in methods THEN <<Head(calls)>> ELSE << >>)
             \o CallsOf(Tail(calls), methods)

PermitsHeld(c) == StepCount(c, "permit") - StepCount(c, "release")

\* The ways forward_raw returns once it holds a permit.
ReturnPaths ==
    {"Ok", "Network", "HttpStatus", "InvalidJson", "InvalidHash",
     "UpstreamError", "UnexpectedBody"}

\* C28: a forward_raw call holds exactly one permit from its acquisition
\* until it returns, the wait for a rate-limiter token included, and holds
\* none once it has returned, whichever way it returned; when every call
\* has returned the available permits are queue_size again; and with
\* queue_size >= 1 and an upstream that always answers, every call returns.
C28_PermitHeldUntilReturn ==
    /\ [](\A c \in DOMAIN fpc :
             /\ fpc[c] \in {"until_ready", "send", "json"} => PermitsHeld(c) = 1
             /\ fpc[c] \in {"idle", "acquire", "done"} => PermitsHeld(c) = 0
             /\ (fpc[c] = "done" /\ fres[c].err \in ReturnPaths) =>
                    /\ StepCount(c, "permit") = 1
                    /\ ftrace[c][Len(ftrace[c])] = "release")
    /\ []((\A c \in DOMAIN fpc : fpc[c] \in {"idle", "done"}) =>
              queue = queue_size)
    /\ \A c \in 1 .. 2 :
           (queue_size >= 1 /\ fpc[c] = "acquire") ~> (fpc[c] = "done")

C28_Witness ==
    /\ queue_size = 1
    /\ queue = queue_size
    /\ \A c \in DOMAIN fpc : fpc[c] = "done" /\ fres[c].err \in ReturnPaths
    /\ \E c \in DOMAIN fpc : fres[c].err = "UpstreamError"
    /\ \E c \in DOMAIN fpc : fres[c].err = "Network"

\* C30: after a termination signal the supervisor only logs its phases and
\* waits on the node's exit future: no step of the supervisor resolves the
\* future, a further signal during the wait changes nothing else, and when
\* the node does not exit by itself the shutdown ends with the timeout
\* error after exactly shutdown_timeout.
C30_ShutdownOnlyWaits ==
    /\ [][node_exit_future' # node_exit_future =>
              /\ node_exit_future = "pending"
              /\ UNCHANGED <<spc, sig, phases, elapsed, sres, exit_status>>]_vars
    /\ [][late_signal' # late_signal =>
              UNCHANGED <<spc, sig, phases, elapsed, sres, exit_status,
                          node_exit_future, config, first_event>>]_vars
    /\ []((spc = "exited" /\ phases = 3 /\ node_exit_future = "pending") =>
              /\ sres = "GracefulShutdownTimeout"
              /\ elapsed = config.shutdown_timeout
              /\ exit_status = Some(1))
    /\ (spc = "shutdown" /\ late_signal) ~>
           (spc = "exited" /\ (node_exit_future # "pending" \/
                                elapsed = config.shutdown_timeout))

C30_Witness ==
    /\ spc = "exited"
    /\ phases = 3
    /\ late_signal
    /\ node_exit_future = "pending"
    /\ sres = "GracefulShutdownTimeout"
    /\ elapsed = config.shutdown_timeout
    /\ config.shutdown_timeout >= 1
====
